---- MODULE Spec2Model ----
(***************************************************************************)
(* A model of arpy's product engine (algebra/operations/full.py), its      *)
(* product cache, the derived blade operations and ARConfig (config.py).   *)
(*                                                                         *)
(* A blade index (a Python str) is a sequence of one-character strings:    *)
(* "023" is <<"0","2","3">>.  A metric is a 4-tuple of 1 / -1.             *)
(***************************************************************************)
EXTENDS Integers, Sequences, FiniteSets, TLC

Range(s) == {s[n] : n \in 1..Len(s)}

POINT == "p"

\* The default labelling of the 16 elements (config.py, _B + _T + _A + _E).
allowed ==
  << <<"p">>, <<"2","3">>, <<"3","1">>, <<"1","2">>,
     <<"0">>, <<"0","2","3">>, <<"0","3","1">>, <<"0","1","2">>,
     <<"1","2","3">>, <<"1">>, <<"2">>, <<"3">>,
     <<"0","1","2","3">>, <<"0","1">>, <<"0","2">>, <<"0","3">> >>

\* The alternative labelling used by the tests: "10 20 30" for the E group.
io_allowed ==
  << <<"p">>, <<"2","3">>, <<"3","1">>, <<"1","2">>,
     <<"0">>, <<"0","2","3">>, <<"0","3","1">>, <<"0","1","2">>,
     <<"1","2","3">>, <<"1">>, <<"2">>, <<"3">>,
     <<"0","1","2","3">>, <<"1","0">>, <<"2","0">>, <<"3","0">> >>

\* tests/utils.py: all 16 assignments of +1/-1 to the generators 0..3.
metrics == {<<t, x, y, z>> : t \in {1, -1}, x \in {1, -1}, y \in {1, -1}, z \in {1, -1}}

\* The default metric +--- (config.py).
metric == <<1, -1, -1, -1>>

(***************************************************************************)
(* ARConfig (config.py)                                                    *)
(***************************************************************************)

\* str.startswith / `x in s` for a one-character x.
Contains(s, ch) == ch \in Range(s)

\* The state of an ARConfig before update_config has run on it.
ARConfig_fields(_allowed, _metric, div) ==
  [ _allowed |-> _allowed, _metric |-> _metric, division_type |-> div,
    _h |-> <<>>, _q |-> <<>>, _B |-> <<>>, _T |-> <<>>, _A |-> <<>>, _E |-> <<>>,
    zet_comps |-> <<>>, xi_groups |-> <<>>, group_to_zet |-> <<>>,
    allowed_groups |-> <<>> ]

\* dict(zip("e x y z".split(), values)): zip stops at the shorter argument.
zip_dims(values) ==
  SubSeq(values, 1, IF Len(values) < 4 THEN Len(values) ELSE 4)

\* ARConfig.update_config: recompute the derived groupings from _allowed.
\* The assignments happen one after another, so an IndexError raised by a
\* `[...][0]` leaves the earlier assignments in place.
update_config(self) ==
  LET hs == SelectSeq(self._allowed, LAMBDA x : Len(x) = 3 /\ ~Contains(x, "0"))
      qs == SelectSeq(self._allowed, LAMBDA x : Len(x) = 4)
      B  == SelectSeq(self._allowed, LAMBDA x : Len(x) = 2 /\ ~Contains(x, "0"))
      T  == SelectSeq(self._allowed, LAMBDA x : Len(x) = 3 /\ Contains(x, "0"))
      A  == SelectSeq(self._allowed, LAMBDA x : Len(x) = 1 /\ x[1] \notin {"p", "0"})
      E  == SelectSeq(self._allowed, LAMBDA x : Len(x) = 2 /\ Contains(x, "0"))
  IN  IF hs = <<>> THEN [cfg |-> self, raised |-> "IndexError"]
      ELSE IF qs = <<>>
        THEN [cfg |-> [self EXCEPT !._h = hs[1]], raised |-> "IndexError"]
      ELSE
        LET s1 == [self EXCEPT !._h = hs[1], !._q = qs[1], !._B = B, !._T = T,
                               !._A = A, !._E = E,
                               !.zet_comps = << zip_dims(<< <<"p">> >> \o B),
                                                zip_dims(<< <<"0">> >> \o T),
                                                zip_dims(<< hs[1] >> \o A),
                                                zip_dims(<< qs[1] >> \o E) >>]
        IN  IF E = <<>> THEN [cfg |-> s1, raised |-> "IndexError"]
            ELSE
              LET e_key == IF E[1][1] = "0" THEN <<"0","i">> ELSE <<"i","0">>
              IN  [cfg |-> [s1 EXCEPT
                      !.xi_groups = << <<<<"i">>, A>>, <<e_key, E>>,
                                       <<<<"j","k">>, B>>, <<<<"0","j","k">>, T>> >>,
                      !.group_to_zet = << <<<<"j","k">>, "B">>, <<<<"i">>, "A">>,
                                          <<<<"0","j","k">>, "T">>, <<e_key, "E">> >>,
                      !.allowed_groups = << <<"p">>, <<"0">>, <<"1","2","3">>,
                                            <<"0","1","2","3">>, <<"i">>, e_key,
                                            <<"j","k">>, <<"0","j","k">> >>],
                   raised |-> "none"]

\* ARConfig.__init__ for a tuple metric: bind the parameters, run update_config.
ARConfig(_allowed, _metric, div) ==
  update_config(ARConfig_fields(_allowed, _metric, div)).cfg

(***************************************************************************)
(* Alpha (algebra/data_types/alpha.py)                                     *)
(***************************************************************************)

\* What a call gives back: a blade, or the exception it raised.
Raise(e) == [_index |-> <<>>, _sign |-> 0, allowed |-> <<>>, raised |-> e]

\* The value of res before any operation has been applied.
no_result == Raise("no call")

\* Alpha.__init__ (the index never carries a leading "-" here: signs are
\* passed as the sign argument).
Alpha(index, sign, cfg) ==
  IF sign \notin {1, -1} THEN Raise("ValueError")
  ELSE IF index \notin Range(cfg._allowed) \cup Range(cfg.allowed_groups)
    THEN Raise("ValueError")
  ELSE [_index |-> index, _sign |-> sign, allowed |-> cfg._allowed, raised |-> "none"]

\* Alpha.__neg__: a copy with the sign flipped.
neg(x) == [x EXCEPT !._sign = -1 * x._sign]

\* Alpha.__eq__
Alpha_eq(x, y) == x._index = y._index /\ x._sign = y._sign

\* list.index: the first position of label in labels (0 if there is none).
index_of(labels, label) ==
  IF \E n \in 1..Len(labels) : labels[n] = label
    THEN CHOOSE n \in 1..Len(labels) :
           labels[n] = label /\ \A m \in 1..(n - 1) : labels[m] # label
  ELSE 0

\* Alpha.__lt__ for two blades of one configuration: by position in allowed.
Alpha_lt(x, y) == index_of(x.allowed, x._index) < index_of(x.allowed, y._index)

(***************************************************************************)
(* sorted(): CPython's list sort on fewer than 64 items is a binary        *)
(* insertion sort that starts from the run the list begins with (a         *)
(* strictly descending run is reversed first).  `order` says which         *)
(* __lt__ the items have: that of Alpha, of Xi (with the labels of its     *)
(* configuration) or of Term.                                              *)
(***************************************************************************)

\* x < y for two items of the kind `order` names (defined with Term below).
RECURSIVE less(_, _, _)

\* count_run: the length of the run the list starts with, negative when the
\* run is strictly descending.
RECURSIVE run_end(_, _, _, _)
run_end(s, n, descending, order) ==
  IF n > Len(s) THEN n - 1
  ELSE IF less(order, s[n], s[n - 1]) = descending
    THEN run_end(s, n + 1, descending, order)
  ELSE n - 1

reversed(s) == [n \in 1..Len(s) |-> s[Len(s) + 1 - n]]

\* binarysort's search: where pivot goes in the sorted prefix s[l+1 .. r].
RECURSIVE bisect(_, _, _, _, _)
bisect(s, pivot, l, r, order) ==
  IF l >= r THEN l
  ELSE LET p == l + ((r - l) \div 2)
       IN  IF less(order, pivot, s[p + 1]) THEN bisect(s, pivot, l, p, order)
           ELSE bisect(s, pivot, p + 1, r, order)

\* binarysort: insert s[start + 1 ..] one by one into the sorted prefix.
RECURSIVE binarysort(_, _, _)
binarysort(s, start, order) ==
  IF start >= Len(s) THEN s
  ELSE LET pivot == s[start + 1]
           at == bisect(s, pivot, 0, start, order)
       IN  binarysort(SubSeq(s, 1, at) \o <<pivot>> \o SubSeq(s, at + 1, start)
                        \o SubSeq(s, start + 2, Len(s)),
                      start + 1, order)

sorted(s, order) ==
  IF Len(s) < 2 THEN s
  ELSE IF less(order, s[2], s[1])
    THEN LET n == run_end(s, 3, TRUE, order)
         IN  binarysort(reversed(SubSeq(s, 1, n)) \o SubSeq(s, n + 1, Len(s)), n, order)
  ELSE binarysort(s, run_end(s, 3, FALSE, order), order)

\* The orders of the three kinds of item.
by_Alpha == [of |-> "Alpha", labels |-> <<>>]
by_Xi(labels) == [of |-> "Xi", labels |-> labels]
by_Term == [of |-> "Term", labels |-> <<>>]

(***************************************************************************)
(* Xi, Term and MultiVector (algebra/data_types)                           *)
(*                                                                         *)
(* The value of a Xi (a str) is a sequence of characters, as a blade       *)
(* index is.  A Term and a MultiVector carry raised |-> "none" so that a   *)
(* result can be told from an exception the way a blade is.                *)
(***************************************************************************)

\* Xi.__init__ (the value never carries a leading "-" here).
Xi(val, partials, sign) == [_val |-> val, _sign |-> sign, _partials |-> partials]

\* ord() of the characters that occur in values.
ord(ch) ==
  CASE ch = "0" -> 48 [] ch = "1" -> 49 [] ch = "2" -> 50 [] ch = "3" -> 51
    [] ch = "f" -> 102 [] ch = "p" -> 112 [] ch = "x" -> 120

\* str.__lt__: the first place where the strings differ decides, a proper
\* prefix is smaller.
str_lt(u, v) ==
  LET same == {n \in 0..Len(u) : n <= Len(v) /\ SubSeq(u, 1, n) = SubSeq(v, 1, n)}
      k == CHOOSE n \in same : \A m \in same : m <= n
  IN  IF k = Len(v) THEN FALSE
      ELSE IF k = Len(u) THEN TRUE
      ELSE ord(u[k + 1]) < ord(v[k + 1])

\* list.__lt__ on two lists: the first place where the items differ (by
\* __eq__) decides by lt, a proper prefix is smaller.
list_lt(u, v, eq(_, _), lt(_, _)) ==
  LET same == {n \in 0..Len(u) : n <= Len(v) /\ \A m \in 1..n : eq(u[m], v[m])}
      k == CHOOSE n \in same : \A m \in same : m <= n
  IN  IF k = Len(v) THEN FALSE
      ELSE IF k = Len(u) THEN TRUE
      ELSE lt(u[k + 1], v[k + 1])

\* Xi.__eq__
Xi_eq(x, y) == x._val = y._val /\ x._partials = y._partials /\ x._sign = y._sign

\* Xi.__lt__ under the labels of the configuration.
Xi_lt(x, y, labels) ==
  IF index_of(labels, x._val) = 0 \/ index_of(labels, y._val) = 0
    THEN str_lt(x._val, y._val)
  ELSE IF x._val # y._val THEN index_of(labels, x._val) < index_of(labels, y._val)
  ELSE IF x._partials # y._partials
    THEN list_lt(x._partials, y._partials, Alpha_eq, Alpha_lt)
  ELSE x._sign < y._sign

\* sorted(components)
sorted_components(comps, labels) == sorted(comps, by_Xi(labels))

\* A slip: the sign of the blade stays on the blade.
Term_sign_left_on_blade(alpha, components, sign, c) ==
  LET negatives == {n \in 1..Len(components) : components[n]._sign = -1}
  IN  [ _alpha |-> alpha,
        _sign |-> IF Cardinality(negatives) % 2 = 0 THEN sign ELSE -1 * sign,
        _components |-> [n \in 1..Len(components) |-> [components[n] EXCEPT !._sign = 1]],
        _component_partials |-> <<>>,
        cfg |-> c,
        raised |-> "none" ]

\* Term.__init__ for an Alpha and a list of Xi: the signs of the blade and
\* of the components are moved into the sign of the term.
Term(alpha, components, sign, c) ==
  LET negatives == {n \in 1..Len(components) : components[n]._sign = -1}
      flips == Cardinality(negatives) + (IF alpha._sign = -1 THEN 1 ELSE 0)
  IN  [ _alpha |-> [alpha EXCEPT !._sign = 1],
        _sign |-> IF flips % 2 = 0 THEN sign ELSE -1 * sign,
        _components |-> [n \in 1..Len(components) |-> [components[n] EXCEPT !._sign = 1]],
        _component_partials |-> <<>>,
        cfg |-> c,
        raised |-> "none" ]

\* Term(alpha) with components None: the one component is Xi(alpha).
Term_of(alpha, c) == Term(alpha, <<Xi(alpha._index, <<>>, 1)>>, 1, c)

\* The `alpha` property of a Term: a copy of the blade with the term's sign.
Term_alpha(t) == [t._alpha EXCEPT !._sign = t._sign]

\* ARConfig.__eq__
ARConfig_eq(c, d) ==
  c._metric = d._metric /\ c._allowed = d._allowed /\ c.division_type = d.division_type

\* sorted(component_partials)
sorted_partials(partials) == sorted(partials, by_Alpha)

\* Term.__eq__
Term_eq(t, u) ==
  /\ ARConfig_eq(t.cfg, u.cfg)
  /\ Alpha_eq(t._alpha, u._alpha)
  /\ t._sign = u._sign
  /\ sorted_components(t._components, t.cfg._allowed)
       = sorted_components(u._components, u.cfg._allowed)
  /\ sorted_partials(t._component_partials) = sorted_partials(u._component_partials)

\* Term.__neg__: a copy with the sign flipped.
Term_neg(t) == [t EXCEPT !._sign = -1 * t._sign]

\* Term.__lt__: by blade, then by the sorted components.
Term_lt(t, u) ==
  IF ~Alpha_eq(t._alpha, u._alpha) THEN Alpha_lt(t._alpha, u._alpha)
  ELSE LET lt(x, y) == Xi_lt(x, y, t.cfg._allowed)
       IN  list_lt(sorted_components(t._components, t.cfg._allowed),
                   sorted_components(u._components, u.cfg._allowed), Xi_eq, lt)

less(order, x, y) ==
  CASE order.of = "Alpha" -> Alpha_lt(x, y)
    [] order.of = "Xi" -> Xi_lt(x, y, order.labels)
    [] order.of = "Term" -> Term_lt(x, y)

\* sorted(terms)
sorted_terms(terms) == sorted(terms, by_Term)

\* MultiVector.__init__ on a list of Terms and Alphas: an Alpha t becomes
\* Term(t).
MultiVector(terms, c) ==
  LET as_terms == [n \in 1..Len(terms) |->
                     IF terms[n].raised = "none" /\ "_index" \in DOMAIN terms[n]
                       THEN Term_of(terms[n], c)
                     ELSE terms[n]]
      built(_terms) ==
        IF \E n \in 1..Len(_terms) : _terms[n].raised # "none"
          THEN _terms[CHOOSE n \in 1..Len(_terms) :
                        /\ _terms[n].raised # "none"
                        /\ \A k \in 1..(n - 1) : _terms[k].raised = "none"]
        ELSE IF \E n \in 1..Len(_terms) : _terms[n]._alpha._index \notin Range(c._allowed)
          THEN Raise("ValueError")
        ELSE [_terms |-> sorted_terms(_terms), cfg |-> c, raised |-> "none"]
  IN  built(as_terms)

\* MultiVector.__neg__: the terms are copied and their signs flipped.
MultiVector_neg(m) ==
  MultiVector([n \in 1..Len(m._terms) |-> Term_neg(m._terms[n])], m.cfg)

\* MultiVector.__add__ on two MultiVectors.
MultiVector_add(m, other) == MultiVector(m._terms \o other._terms, m.cfg)

\* MultiVector.__sub__: self + -other.
MultiVector_sub(m, other) ==
  LET add(negated) == IF negated.raised # "none" THEN negated
                      ELSE MultiVector_add(m, negated)
  IN  add(MultiVector_neg(other))

\* `key in seen` / seen[key] for the dict `seen` of cancel_terms, kept as the
\* sequence of its items in insertion order: the position of the key that
\* equals t (Term.__hash__ agrees with Term.__eq__), 0 if there is none.
seen_at(seen, t) ==
  IF \E k \in 1..Len(seen) : Term_eq(seen[k].key, t)
    THEN CHOOSE k \in 1..Len(seen) : Term_eq(seen[k].key, t)
  ELSE 0

\* A slip: a term whose negative was seen is dropped, the negative is kept.
cancel_one_keeps_seen(seen, term) ==
  IF seen_at(seen, Term_neg(term)) # 0 THEN seen
  ELSE IF seen_at(seen, term) # 0
    THEN [seen EXCEPT ![seen_at(seen, term)].terms = Append(@, term)]
  ELSE Append(seen, [key |-> term, terms |-> <<term>>])

\* A slip: the negated copy is stored in place of the term.
cancel_one_stores_neg(seen, term) ==
  IF seen_at(seen, Term_neg(term)) # 0
    THEN IF Len(seen[seen_at(seen, Term_neg(term))].terms) = 1
           THEN SubSeq(seen, 1, seen_at(seen, Term_neg(term)) - 1)
                  \o SubSeq(seen, seen_at(seen, Term_neg(term)) + 1, Len(seen))
         ELSE [seen EXCEPT ![seen_at(seen, Term_neg(term))].terms = Tail(@)]
  ELSE IF seen_at(seen, term) # 0
    THEN [seen EXCEPT ![seen_at(seen, term)].terms = Append(@, Term_neg(term))]
  ELSE Append(seen, [key |-> term, terms |-> <<Term_neg(term)>>])

\* One round of the loop of cancel_terms, for `term`.
cancel_one(seen, term) ==
  LET at_neg == seen_at(seen, Term_neg(term))
      at == seen_at(seen, term)
  IN  IF at_neg # 0
        THEN IF Len(seen[at_neg].terms) = 1
               THEN SubSeq(seen, 1, at_neg - 1) \o SubSeq(seen, at_neg + 1, Len(seen))
             ELSE [seen EXCEPT ![at_neg].terms = Tail(@)]
      ELSE IF at # 0 THEN [seen EXCEPT ![at].terms = Append(@, term)]
      ELSE Append(seen, [key |-> term, terms |-> <<term>>])

\* The loop of cancel_terms over the terms not yet visited.
RECURSIVE cancel_loop(_, _)
cancel_loop(seen, terms) ==
  IF terms = <<>> THEN seen
  ELSE cancel_loop(cancel_one(seen, Head(terms)), Tail(terms))

\* sum(seen.values(), [])
RECURSIVE seen_values(_)
seen_values(seen) ==
  IF seen = <<>> THEN <<>> ELSE Head(seen).terms \o seen_values(Tail(seen))

\* MultiVector.cancel_terms: the terms of self afterwards.
cancel_terms(m) ==
  [m EXCEPT !._terms = sorted_terms(seen_values(cancel_loop(<<>>, sorted_terms(m._terms))))]

(***************************************************************************)
(* find_prod (algebra/operations/full.py)                                  *)
(***************************************************************************)

\* metric = {k: v for k, v in zip("0123", cfg.metric)}
metric_of(cfg, k) ==
  CASE k = "0" -> cfg._metric[1]
    [] k = "1" -> cfg._metric[2]
    [] k = "2" -> cfg._metric[3]
    [] k = "3" -> cfg._metric[4]

\* targets = {frozenset(a): a for a in cfg.allowed}: the last label with
\* that symbol set wins; 0 stands for a KeyError.
target_pos(cfg, components) ==
  LET hits == {n \in 1..Len(cfg._allowed) : Range(cfg._allowed[n]) = Range(components)}
  IN  IF hits = {} THEN 0 ELSE CHOOSE n \in hits : \A m \in hits : m <= n

\* str.find(ch, start) on a sequence known to contain ch at or after start.
find(components, ch, start) ==
  CHOOSE n \in start..Len(components) :
    /\ components[n] = ch
    /\ \A m \in start..(n - 1) : components[m] # ch

\* A slip: the cancelled pair is not given the metric sign of its generator.
pop_and_cancel_no_metric(st, repeated, cfg) ==
  LET first  == find(st.components, repeated, 1)
      second == find(st.components, repeated, first + 1)
      n_pops == second - first - 1
  IN  [sign |-> st.sign * (IF n_pops % 2 = 1 THEN -1 ELSE 1),
       components |-> SelectSeq(st.components, LAMBDA ch : ch # repeated)]

\* A slip: the pops are counted from the start of the string, not from the
\* first occurrence of the symbol.
pop_and_cancel_from_start(st, repeated, cfg) ==
  LET first  == find(st.components, repeated, 1)
      second == find(st.components, repeated, first + 1)
      n_pops == second - 1
  IN  [sign |-> st.sign * (IF n_pops % 2 = 1 THEN -1 ELSE 1) * metric_of(cfg, repeated),
       components |-> SelectSeq(st.components, LAMBDA ch : ch # repeated)]

\* One pass of the "pop and cancel" loop body for the symbol `repeated`.
pop_and_cancel(st, repeated, cfg) ==
  LET first  == find(st.components, repeated, 1)
      second == find(st.components, repeated, first + 1)
      n_pops == second - first - 1
  IN  [sign |-> st.sign * (IF n_pops % 2 = 1 THEN -1 ELSE 1) * metric_of(cfg, repeated),
       components |-> SelectSeq(st.components, LAMBDA ch : ch # repeated)]

\* The loop over set(i._index).intersection(set(j._index)), taken in the
\* order `todo` (the iteration order of the set).
RECURSIVE cancel_all(_, _, _)
cancel_all(st, todo, cfg) ==
  IF todo = <<>> THEN st
  ELSE cancel_all(pop_and_cancel(st, Head(todo), cfg), Tail(todo), cfg)

\* A slip: the remaining ranks are not renumbered after the first is taken.
renumber_keeps_ranks(current) == current

\* new_order = {j: i + 1 for i, j in enumerate(sorted(current))} applied to
\* current: every rank is replaced by its 1-based position among the rest.
renumber(current) ==
  [n \in 1..Len(current) |->
     Cardinality({m \in 1..Len(current) : current[m] <= current[n]})]

\* A slip: only the first rank is examined.
count_pops_first_only(current, sign) ==
  IF Len(current) <= 1 THEN sign
  ELSE IF current[1] % 2 = 0 THEN -1 * sign ELSE sign

\* The `while len(current) > 1` loop: the sign after the ordering pops.
RECURSIVE count_pops(_, _)
count_pops(current, sign) ==
  IF Len(current) <= 1 THEN sign
  ELSE count_pops(renumber(Tail(current)),
                  IF current[1] % 2 = 0 THEN -1 * sign ELSE sign)

\* ordering = {c: i + 1 for ...}; current = [ordering[c] for c in components]
ordering(target, components) ==
  [n \in 1..Len(components) |->
     CHOOSE r \in 1..Len(target) : target[r] = components[n]]

\* A slip: components.replace(POINT, "") drops every "p", not only the first.
point_product_drops_all(components, sign, cfg) ==
  Alpha(SelectSeq(components, LAMBDA ch : ch # POINT), sign, cfg)

\* `if POINT in components`: drop the first "p", keep the sign.
point_product(components, sign, cfg) ==
  LET at == find(components, POINT, 1)
  IN  Alpha(SubSeq(components, 1, at - 1) \o SubSeq(components, at + 1, Len(components)),
            sign, cfg)

\* The tail of find_prod: look the surviving symbols up in targets and
\* correct the sign for their order.
to_target(st, cfg) ==
  LET pos == target_pos(cfg, st.components)
  IN  IF pos = 0 THEN Raise("KeyError")
      ELSE
        LET target == cfg._allowed[pos]
        IN  IF target = st.components THEN Alpha(target, st.sign, cfg)
            ELSE Alpha(target, count_pops(ordering(target, st.components), st.sign), cfg)

\* The body of find_prod, with the shared symbols visited in the order in
\* which they appear in `order`.
find_prod_body(i, j, cfg, order) ==
  IF ~(i.allowed = j.allowed /\ j.allowed = cfg._allowed) THEN Raise("ValueError")
  ELSE
    LET sign       == i._sign * j._sign
        components == i._index \o j._index
    IN  IF Contains(components, POINT) THEN point_product(components, sign, cfg)
        ELSE
          LET shared == Range(i._index) \cap Range(j._index)
              st     == cancel_all([sign |-> sign, components |-> components],
                                   SelectSeq(order, LAMBDA ch : ch \in shared), cfg)
          IN  IF Len(st.components) = 0 THEN Alpha(<<POINT>>, st.sign, cfg)
              ELSE to_target(st, cfg)

(***************************************************************************)
(* State                                                                   *)
(***************************************************************************)
VARIABLES
  cfg,         \* the ARConfig the operands a, b are built under
  iter_order,  \* the iteration order of Python sets of symbols in this process
  a, b,        \* the operand blades
  op,          \* the operation applied last to a, b ("none" before any)
  res,         \* what that operation returned
  slots,       \* the caller's variables: a handle each, or no_object
  cache,       \* the dict `cache` of product_cache, in insertion order
  call,        \* the call made last on the cache and how it ended
  ncalls,      \* how many calls the caller has made
  conf,        \* an ARConfig object whose allowed and metric get assigned
  assignment,  \* the assignment made last to conf and how it ended
  mv,          \* a MultiVector object whose methods get called
  mv_call      \* the method called last on mv, mv before that call, how
               \* many times cancel_terms was called, how mv was built

prod_vars == <<cfg, a, b, op, res>>
cache_vars == <<slots, cache, call, ncalls>>
config_vars == <<conf, assignment>>
mvec_vars == <<mv, mv_call>>
vars == <<cfg, iter_order, a, b, op, res, slots, cache, call, ncalls, conf, assignment,
          mv, mv_call>>

\* No MultiVector has been built.
MvecIdle ==
  /\ mv = no_result
  /\ mv_call = [name |-> "none", was |-> no_result, calls |-> 0, built |-> "list"]

(***************************************************************************)
(* Assignment to ARConfig.allowed and ARConfig.metric (config.py)          *)
(*                                                                         *)
(* A metric handed to the setter is a sequence of elements, each denoted   *)
(* by a string: "+" and "-" are the characters, "1" and "-1" the integers  *)
(* 1 and -1, anything else is some other value.                            *)
(***************************************************************************)

\* The module-level default: config = ARConfig(allowed, metric, "into").
config == ARConfig(allowed, metric, "into")

\* ARConfig._convert_metric: a string of four +/- becomes a tuple of 1/-1, a
\* 4-tuple of 1/-1 is kept, everything else raises ValueError.
_convert_metric(signs) ==
  IF \A n \in 1..Len(signs) : signs[n] \in {"+", "-"}
    THEN IF Len(signs) # 4 THEN [metric |-> <<>>, raised |-> "ValueError"]
         ELSE [metric |-> [n \in 1..4 |-> IF signs[n] = "+" THEN 1 ELSE -1],
               raised |-> "none"]
  ELSE IF \A n \in 1..Len(signs) : signs[n] \in {"1", "-1"}
    THEN IF Len(signs) # 4 THEN [metric |-> <<>>, raised |-> "ValueError"]
         ELSE [metric |-> [n \in 1..4 |-> IF signs[n] = "1" THEN 1 ELSE -1],
               raised |-> "none"]
  ELSE [metric |-> <<>>, raised |-> "ValueError"]

\* update_env (arpy/__init__.py): rebuild the predefined multivectors and
\* differential operators from the configuration.  MultiVector("p") and
\* MultiVector("0") need these labels in allowed; AR_differential over
\* 0, 1, 2, 3 builds an Alpha for each, which raises ValueError for a label
\* in neither allowed nor allowed_groups.  The objects built are functions
\* of the fields of self and are not kept in the model.
update_env(self) ==
  IF ~({<<"p">>, <<"0">>} \subseteq Range(self._allowed))
    THEN [cfg |-> self, raised |-> "ValueError"]
  ELSE IF ~({<<"0">>, <<"1">>, <<"2">>, <<"3">>}
              \subseteq Range(self._allowed) \cup Range(self.allowed_groups))
    THEN [cfg |-> self, raised |-> "ValueError"]
  ELSE [cfg |-> self, raised |-> "none"]

\* update_config() then update_env(): what both setters end with.
update_config_and_env(self) ==
  LET env(u) == IF u.raised # "none" THEN u ELSE update_env(u.cfg)
  IN  env(update_config(self))

\* The setter of ARConfig.allowed: the length and the characters are
\* checked, then _allowed is assigned, then the groupings are recomputed.
allowed_setter(self, value) ==
  IF Len(value) # 16 THEN [cfg |-> self, raised |-> "ValueError"]
  ELSE IF \E n \in 1..Len(value) : ~(Range(value[n]) \subseteq {"p", "0", "1", "2", "3"})
    THEN [cfg |-> self, raised |-> "ValueError"]
  ELSE update_config_and_env([self EXCEPT !._allowed = value])

\* The setter of ARConfig.metric: the value is converted (which can raise)
\* before _metric is assigned, then the groupings are recomputed.
metric_setter(self, signs) ==
  LET assign(m) == IF m.raised # "none" THEN [cfg |-> self, raised |-> m.raised]
                   ELSE update_config_and_env([self EXCEPT !._metric = m.metric])
  IN  assign(_convert_metric(signs))

\* ARConfig.reset for a configuration built from the defaults: both setters
\* with the original values, then update_config and update_env once more.
reset(self) ==
  LET again(r) == IF r.raised # "none" THEN r ELSE update_config_and_env(r.cfg)
      second(r) == IF r.raised # "none" THEN r
                   ELSE again(metric_setter(r.cfg, <<"1", "-1", "-1", "-1">>))
  IN  second(allowed_setter(self, allowed))

\* The state of the configuration variables when nothing has been assigned.
ConfigIdle ==
  /\ conf = config
  /\ assignment = [attr |-> "none", raised |-> "none", was |-> config]

\* find_prod as the running process computes it (the undecorated function).
find_prod(i, j, c) == find_prod_body(i, j, c, iter_order)

\* A slip: the inverse forgets the sign of the square.
inverse_keeps_sign(x, c) == Alpha(x._index, x._sign, c)

\* inverse(a, cfg)
inverse(x, c) ==
  LET sq == find_prod(x, x, c)
  IN  IF sq.raised # "none" THEN sq ELSE Alpha(x._index, sq._sign * x._sign, c)

\* full on (Alpha, Alpha); an exception raised while computing an argument
\* propagates.
full(x, y, c) ==
  IF x.raised # "none" THEN x
  ELSE IF y.raised # "none" THEN y
  ELSE find_prod(x, y, c)

\* A slip: division by y multiplies by y itself.
div_by_no_inverse(x, y, c) == full(x, y, c)

\* div_by on (Alpha, Alpha)
div_by(x, y, c) == full(x, inverse(y, c), c)

\* A slip: division into y multiplies x itself from the left.
div_into_no_inverse(x, y, c) == full(x, y, c)

\* div_into on (Alpha, Alpha)
div_into(x, y, c) == full(inverse(x, c), y, c)

\* A slip: the last factor b^-1 is left out.
commutator_three_factors(x, y, c) == full(full(x, y, c), inverse(x, c), c)

\* commutator on (Alpha, Alpha): a . b . a^-1 . b^-1
commutator(x, y, c) ==
  full(full(full(x, y, c), inverse(x, c), c), inverse(y, c), c)

(***************************************************************************)
(* Operations dispatched on the kind of their first argument               *)
(* (operations/rev.py, hermitian.py, project.py).  dispatch_on looks the   *)
(* type of the argument up among the implementations added; the function   *)
(* decorated is the fallback and raises NotImplementedError.               *)
(***************************************************************************)

\* Python's None as a value returned.
None == [is_None |-> TRUE, raised |-> "none"]

\* type(v) for the values of the model.
kind(v) ==
  IF v.raised # "none" THEN "exception"
  ELSE IF "_index" \in DOMAIN v THEN "Alpha"
  ELSE IF "_alpha" \in DOMAIN v THEN "Term"
  ELSE IF "_terms" \in DOMAIN v THEN "MultiVector"
  ELSE IF "wrt" \in DOMAIN v THEN "AR_differential"
  ELSE "NoneType"

\* A slip: only single indices keep their sign.
rev_keeps_vectors_only(index) == Len(index) = 1

\* len(index) in [1, 4]
rev_keeps(index) == Len(index) \in {1, 4}

_rev_alpha(alpha) == IF rev_keeps(alpha._index) THEN alpha ELSE neg(alpha)

_rev_term(term) == IF rev_keeps(term._alpha._index) THEN term ELSE Term_neg(term)

\* rev of a term of a MultiVector: dispatched again.
rev_of_term(t) == IF kind(t) = "Term" THEN _rev_term(t) ELSE Raise("NotImplementedError")

_rev_multivector(mvec) ==
  MultiVector([n \in 1..Len(mvec._terms) |-> rev_of_term(mvec._terms[n])], mvec.cfg)

rev(obj) ==
  CASE kind(obj) = "Alpha" -> _rev_alpha(obj)
    [] kind(obj) = "Term" -> _rev_term(obj)
    [] kind(obj) = "MultiVector" -> _rev_multivector(obj)
    [] kind(obj) = "exception" -> obj
    [] OTHER -> Raise("NotImplementedError")

\* full(alpha, alpha, cfg)._sign == -1
squares_to_minus(alpha, c) ==
  LET is_minus(sq) == sq.raised = "none" /\ sq._sign = -1
  IN  is_minus(full(alpha, alpha, c))

\* res._sign = -1 on a copy of the blade.
_hermitian_alpha(alpha, c) ==
  LET after(sq) == IF sq.raised # "none" THEN sq
                   ELSE IF sq._sign = -1 THEN [alpha EXCEPT !._sign = -1]
                   ELSE alpha
  IN  after(full(alpha, alpha, c))

\* res.sign = -1 on a copy of the term: `sign` is a property of Term with
\* no setter, the assignment raises AttributeError.
_hermitian_term(term, c) ==
  LET after(sq) == IF sq.raised # "none" THEN sq
                   ELSE IF sq._sign = -1 THEN Raise("AttributeError")
                   ELSE term
  IN  after(full(term._alpha, term._alpha, c))

\* _neg: the blades of cfg.allowed that square to -1.
_neg(c) ==
  {c._allowed[n] : n \in {k \in 1..Len(c._allowed) :
                            squares_to_minus(Alpha(c._allowed[k], 1, c), c)}}

\* new_term._sign *= -1 if new_term._alpha in _neg
hermitian_term_of_mvec(t, negative) ==
  IF t._alpha._index \in negative THEN Term_neg(t) ELSE t

_hermitian_mvec(mvec, c) ==
  LET over(negative) ==
        MultiVector([n \in 1..Len(mvec._terms) |->
                       hermitian_term_of_mvec(mvec._terms[n], negative)], c)
  IN  over(_neg(c))

hermitian(obj, c) ==
  CASE kind(obj) = "Alpha" -> _hermitian_alpha(obj, c)
    [] kind(obj) = "Term" -> _hermitian_term(obj, c)
    [] kind(obj) = "MultiVector" -> _hermitian_mvec(obj, c)
    [] kind(obj) = "exception" -> obj
    [] OTHER -> Raise("NotImplementedError")

\* A slip: the scalar is taken for an element of grade 1.
has_grade_by_length(index, grade) == Len(index) = grade

\* Is the element with this index of the grade?
has_grade(index, grade) ==
  IF index = <<POINT>> THEN grade = 0 ELSE Len(index) = grade

_project_alpha(element, grade, c) ==
  IF has_grade(element._index, grade) THEN element ELSE None

_project_term(element, grade, c) ==
  IF has_grade(element._alpha._index, grade) THEN element ELSE None

_project_multivector(element, grade, c) ==
  MultiVector(SelectSeq(element._terms, LAMBDA t : has_grade(t._alpha._index, grade)), c)

project(element, grade, c) ==
  CASE kind(element) = "Alpha" -> _project_alpha(element, grade, c)
    [] kind(element) = "Term" -> _project_term(element, grade, c)
    [] kind(element) = "MultiVector" -> _project_multivector(element, grade, c)
    [] kind(element) = "exception" -> element
    [] OTHER -> Raise("NotImplementedError")

(***************************************************************************)
(* Operations dispatched on the kinds of both arguments (operations/       *)
(* full.py, div.py, algebra/differential.py).                              *)
(***************************************************************************)

\* dispatch_on((0, 1)): the kinds of the two arguments if an implementation
\* was added for them, the fallback (the function decorated) otherwise.
dispatch_on(added, x, y) ==
  IF <<kind(x), kind(y)>> \in added THEN <<kind(x), kind(y)>> ELSE <<"fallback">>

\* Term(alpha, components, cfg=cfg) on a product that may have raised.
Term_from(alpha, components, c) ==
  IF alpha.raised # "none" THEN alpha ELSE Term(alpha, components, 1, c)

_full_alpha_term(x, y, c) == Term_from(find_prod(x, Term_alpha(y), c), y._components, c)

_full_term_alpha(x, y, c) == Term_from(find_prod(Term_alpha(x), y, c), x._components, c)

_full_term_term(x, y, c) ==
  Term_from(find_prod(Term_alpha(x), Term_alpha(y), c), x._components \o y._components, c)

\* A slip: Term / Alpha is missing, Alpha / Term is there.
div_by_added_swapped == { <<"Alpha", "Alpha">>, <<"Alpha", "Term">> }

\* The kinds div_by has an implementation for.
div_by_added == { <<"Alpha", "Alpha">>, <<"Term", "Alpha">> }

\* The kinds div_into has an implementation for.
div_into_added == { <<"Alpha", "Alpha">>, <<"Alpha", "Term">> }

_div_by_term_alpha(x, y, c) ==
  LET divided(inv) == IF inv.raised # "none" THEN inv
                      ELSE Term_from(find_prod(Term_alpha(x), inv, c), x._components, c)
  IN  divided(inverse(y, c))

_div_into_alpha_term(x, y, c) ==
  LET divided(inv) == IF inv.raised # "none" THEN inv
                      ELSE Term_from(find_prod(inv, Term_alpha(y), c), y._components, c)
  IN  divided(inverse(x, c))

\* div_by as callers reach it: dispatched on the kinds of a and b.
div_by_any(x, y, c) ==
  IF x.raised # "none" THEN x
  ELSE IF y.raised # "none" THEN y
  ELSE CASE dispatch_on(div_by_added, x, y) = <<"Alpha", "Alpha">> -> div_by(x, y, c)
         [] dispatch_on(div_by_added, x, y) = <<"Term", "Alpha">> -> _div_by_term_alpha(x, y, c)
         [] OTHER -> Raise("NotImplementedError")

\* div_into as callers reach it.
div_into_any(x, y, c) ==
  IF x.raised # "none" THEN x
  ELSE IF y.raised # "none" THEN y
  ELSE CASE dispatch_on(div_into_added, x, y) = <<"Alpha", "Alpha">> -> div_into(x, y, c)
         [] dispatch_on(div_into_added, x, y) = <<"Alpha", "Term">> ->
              _div_into_alpha_term(x, y, c)
         [] OTHER -> Raise("NotImplementedError")

\* AR_differential.__init__ on a list of indices.
AR_differential(wrt, c) ==
  LET made(alphas) ==
        IF \E n \in 1..Len(alphas) : alphas[n].raised # "none"
          THEN alphas[CHOOSE n \in 1..Len(alphas) :
                        /\ alphas[n].raised # "none"
                        /\ \A k \in 1..(n - 1) : alphas[k].raised = "none"]
        ELSE [wrt |-> alphas, cfg |-> c, raised |-> "none"]
  IN  made([n \in 1..Len(wrt) |-> Alpha(wrt[n], 1, c)])

\* A slip: the division type of the configuration is used whatever div is.
_div_ignores_div(alpha, wrt, c, div) ==
  IF c.division_type = "by" THEN div_by_any(alpha, wrt, c)
  ELSE IF c.division_type = "into" THEN div_into_any(wrt, alpha, c)
  ELSE Raise("ValueError")

\* _div: div is "" where the code has None.
_div(alpha, wrt, c, div) ==
  LET chosen == IF div # "" THEN div ELSE c.division_type
  IN  IF chosen = "by" THEN div_by_any(alpha, wrt, c)
      ELSE IF chosen = "into" THEN div_into_any(wrt, alpha, c)
      ELSE Raise("ValueError")

\* The partials setters of Xi and of Term: self._partials = sorted(val).
partials_set(val) == sorted_partials(val)

\* term_partial after the division: the blade is assigned (the alpha
\* setter moves its sign into the term), wrt goes in front of the partials
\* of the one component, or of the term if it has several components.
with_partial(term, alpha, wrt) ==
  IF alpha.raised # "none" THEN alpha
  ELSE IF Len(term._components) = 1
    THEN [term EXCEPT !._alpha = [alpha EXCEPT !._sign = 1],
                      !._sign = alpha._sign,
                      !._components[1]._partials = partials_set(<<wrt>> \o @)]
  ELSE [term EXCEPT !._alpha = [alpha EXCEPT !._sign = 1],
                    !._sign = alpha._sign,
                    !._component_partials = partials_set(<<wrt>> \o @)]

term_partial(term, wrt, c, div) == with_partial(term, _div(Term_alpha(term), wrt, c, div), wrt)

\* AR_differential.__call__: one term for every term of mvec and every
\* element of wrt, the terms of mvec in the outer loop.
AR_differential_call(diff, mvec, c, div) ==
  LET k == Len(diff.wrt)
  IN  MultiVector([q \in 1..(Len(mvec._terms) * k) |->
                     term_partial(mvec._terms[((q - 1) \div k) + 1],
                                  diff.wrt[((q - 1) % k) + 1], c, div)], c)

_full_differential_mvec(diff, mvec, c) == AR_differential_call(diff, mvec, c, "")

_full_mvec_differential_mvec(mvec, diff, c) == AR_differential_call(diff, mvec, c, "by")

\* The kinds full has an implementation for.
full_added ==
  { <<"Alpha", "Alpha">>, <<"Alpha", "Term">>, <<"Term", "Alpha">>, <<"Term", "Term">>,
    <<"MultiVector", "MultiVector">>, <<"Alpha", "MultiVector">>,
    <<"MultiVector", "Alpha">>, <<"AR_differential", "MultiVector">>,
    <<"MultiVector", "AR_differential">> }

\* full on two elements that are blades or terms.
full_elements(x, y, c) ==
  CASE dispatch_on(full_added, x, y) = <<"Alpha", "Alpha">> -> find_prod(x, y, c)
    [] dispatch_on(full_added, x, y) = <<"Alpha", "Term">> -> _full_alpha_term(x, y, c)
    [] dispatch_on(full_added, x, y) = <<"Term", "Alpha">> -> _full_term_alpha(x, y, c)
    [] dispatch_on(full_added, x, y) = <<"Term", "Term">> -> _full_term_term(x, y, c)
    [] OTHER -> Raise("NotImplementedError")

_full_mvec_mvec(mv1, mv2, c) ==
  LET k == Len(mv2._terms)
  IN  MultiVector([q \in 1..(Len(mv1._terms) * k) |->
                     full_elements(mv1._terms[((q - 1) \div k) + 1],
                                   mv2._terms[((q - 1) % k) + 1], c)], c)

_full_alpha_mvec(x, mvec, c) ==
  MultiVector([n \in 1..Len(mvec._terms) |-> full_elements(x, mvec._terms[n], c)], c)

_full_mvec_alpha(mvec, x, c) ==
  MultiVector([n \in 1..Len(mvec._terms) |-> full_elements(mvec._terms[n], x, c)], c)

\* full as callers reach it: dispatched on the kinds of a and b.
full_any(x, y, c) ==
  IF x.raised # "none" THEN x
  ELSE IF y.raised # "none" THEN y
  ELSE CASE dispatch_on(full_added, x, y) = <<"MultiVector", "MultiVector">> ->
              _full_mvec_mvec(x, y, c)
         [] dispatch_on(full_added, x, y) = <<"Alpha", "MultiVector">> ->
              _full_alpha_mvec(x, y, c)
         [] dispatch_on(full_added, x, y) = <<"MultiVector", "Alpha">> ->
              _full_mvec_alpha(x, y, c)
         [] dispatch_on(full_added, x, y) = <<"AR_differential", "MultiVector">> ->
              _full_differential_mvec(x, y, c)
         [] dispatch_on(full_added, x, y) = <<"MultiVector", "AR_differential">> ->
              _full_mvec_differential_mvec(x, y, c)
         [] OTHER -> full_elements(x, y, c)

(***************************************************************************)
(* The product cache (product_cache in algebra/operations/full.py)         *)
(*                                                                         *)
(* The caller holds blades in NSlots variables.  An object is either the   *)
(* private object of a slot, or the result object stored in a cache entry, *)
(* or an object no variable refers to any more.  A handle names an object  *)
(* and carries its current value: slot > 0 for the object held in that     *)
(* slot, entry > 0 for the result object of that cache entry.              *)
(***************************************************************************)
NSlots == 2
MaxCache == 2
MaxCalls == 4

no_object == [slot |-> 0, entry |-> 0, val |-> Raise("unbound")]

handle(slot, entry, val) == [slot |-> slot, entry |-> entry, val |-> val]

\* Do two handles name the same object?  (`is`)
same_object(x, y) ==
  \/ x.slot > 0 /\ x.slot = y.slot
  \/ x.entry > 0 /\ x.entry = y.entry

\* The configurations the contexts of the cache model are built with:
\* the two labellings of test_context.py and a second metric.
cache_configs ==
  << ARConfig(allowed, metric, "into"),
     ARConfig(io_allowed, metric, "into"),
     ARConfig(allowed, <<1, 1, 1, 1>>, "into") >>

\* hash(args) for args = (i, j, tuple(cfg.metric), tuple(cfg.allowed)), with
\* Alpha.__hash__ = hash((index, sign)); distinct tuples hash differently.
hash_args(vi, vj, c) == <<vi._index, vi._sign, vj._index, vj._sign, c._metric, c._allowed>>

\* Alpha.__eq__ / tuple equality between a stored key and the looked-up args.
key_eq(e, vi, vj, c) ==
  /\ e.i.val._index = vi._index /\ e.i.val._sign = vi._sign
  /\ e.j.val._index = vj._index /\ e.j.val._sign = vj._sign
  /\ e.metric = c._metric
  /\ e.allowed = c._allowed

\* cache.get(args): the entries whose stored hash is that of args and whose
\* key now compares equal to args (a dict compares the stored hash first).
cache_get(ch, vi, vj, c) ==
  {k \in 1..Len(ch) : ch[k].hash = hash_args(vi, vj, c) /\ key_eq(ch[k], vi, vj, c)}

\* A slip: the cached object itself is handed to the caller.
copy_returns_same(x) == x

\* copy(result): a new object with the same index and sign.
copy(x) == handle(0, 0, x.val)

\* The miss branch of wrapped, given what func(i, j, cfg) gave: an exception
\* leaves the cache alone, a result is stored under args and a copy returned.
cache_store(ch, hi, hj, c, result) ==
  IF result.raised # "none"
    THEN [cache |-> ch, raised |-> result.raised, ret |-> no_object]
  ELSE [cache |-> Append(ch, [hash |-> hash_args(hi.val, hj.val, c),
                              i |-> hi, j |-> hj,
                              metric |-> c._metric, allowed |-> c._allowed,
                              value |-> result]),
        raised |-> "none",
        ret |-> copy(handle(0, Len(ch) + 1, result))]

\* wrapped(i, j, cfg): the decorated find_prod.  hi, hj are the handles of the
\* operands.  Gives the cache afterwards and what was returned or raised.
wrapped(ch, hi, hj, c) ==
  LET hits == cache_get(ch, hi.val, hj.val, c)
  IN  IF hits # {}
        THEN LET k == CHOOSE n \in hits : \A m \in hits : n <= m
             IN  [cache |-> ch, raised |-> "none", ret |-> copy(handle(0, k, ch[k].value))]
      ELSE cache_store(ch, hi, hj, c, find_prod(hi.val, hj.val, c))

\* An exception raised while computing an argument propagates.
propagate(r) == [cache |-> r.cache, raised |-> r.raised, ret |-> no_object]

\* The Alpha that inverse builds from sq = find_prod(a, a, cfg).
inverse_of_square(sq, hx, c) ==
  IF sq.raised # "none" THEN sq
  ELSE LET inv == Alpha(hx.val._index, sq.ret.val._sign * hx.val._sign, c)
       IN  IF inv.raised # "none"
             THEN [cache |-> sq.cache, raised |-> inv.raised, ret |-> no_object]
           ELSE [cache |-> sq.cache, raised |-> "none", ret |-> handle(0, 0, inv)]

\* inverse(a, cfg) through the cache.
inverse_cached(ch, hx, c) == inverse_of_square(wrapped(ch, hx, hx, c), hx, c)

\* full on (Alpha, Alpha) through the cache.
full_cached(ch, hx, hy, c) == wrapped(ch, hx, hy, c)

\* div_by on (Alpha, Alpha) through the cache.
div_by_cached(ch, hx, hy, c) ==
  \* the product, given inv = inverse(b, cfg)
  LET by(inv) == IF inv.raised # "none" THEN inv ELSE wrapped(inv.cache, hx, inv.ret, c)
  IN  by(inverse_cached(ch, hy, c))

\* div_into on (Alpha, Alpha) through the cache.
div_into_cached(ch, hx, hy, c) ==
  \* the product, given inv = inverse(a, cfg)
  LET into(inv) == IF inv.raised # "none" THEN inv ELSE wrapped(inv.cache, inv.ret, hy, c)
  IN  into(inverse_cached(ch, hx, c))

(***************************************************************************)
(* The expression evaluator on blades (utils/lexparse.py)                  *)
(***************************************************************************)

\* What the parser gives back: a value, None (no_object) or an exception.
parsed(ch, raised, ret) == [cache |-> ch, raised |-> raised, ret |-> ret]

\* ArpyLexer.lex for one lexeme under the context's configuration c: an
\* ALPHA literal builds a new Alpha, a VAR is looked up in the caller's
\* variables (an unbound name raises AR_Error).
lex(t, c) ==
  IF t.tag = "ALPHA"
    THEN LET x == Alpha(t.index, t.sign, c)
         IN  IF x.raised # "none" THEN parsed(<<>>, x.raised, no_object)
             ELSE parsed(<<>>, "none", handle(0, 0, x))
  ELSE IF slots[t.slot] = no_object THEN parsed(<<>>, "AR_Error", no_object)
  ELSE parsed(<<>>, "none", slots[t.slot])

\* ArpyParser.binops applied to two blades.
binop(tag, ch, lhs, rhs, c) ==
  CASE tag = "FULL" -> full_cached(ch, lhs, rhs, c)
    [] tag = "BY"   -> div_by_cached(ch, lhs, rhs, c)
    [] tag = "INTO" -> div_into_cached(ch, lhs, rhs, c)

\* ArpyParser.parse on the lexemes not yet pulled, with previous_token.
\* AR_Error is caught inside parse and turned into None.
RECURSIVE parse(_, _, _, _)
parse(tokens, previous_token, ch, c) ==
  LET t == Head(tokens)
      \* previous_token = full(previous_token, token), then the rest
      product(val) == IF val.raised # "none" THEN propagate(val)
                      ELSE parse(Tail(tokens), val.ret, val.cache, c)
      \* an EXPR token: the first one is kept, a later one multiplies
      expr(tok) == IF tok.raised = "AR_Error" THEN parsed(ch, "none", no_object)
                   ELSE IF tok.raised # "none" THEN parsed(ch, tok.raised, no_object)
                   ELSE IF previous_token = no_object
                     THEN parse(Tail(tokens), tok.ret, ch, c)
                   ELSE product(full_cached(ch, previous_token, tok.ret, c))
      \* a binary operator applied to previous_token and the parsed rest
      operator(RHS) == IF RHS.raised # "none" THEN RHS
                       ELSE IF RHS.ret = no_object THEN parsed(RHS.cache, "none", no_object)
                       ELSE binop(t.tag, RHS.cache, previous_token, RHS.ret, c)
  IN  IF tokens = <<>> THEN parsed(ch, "none", previous_token)
      ELSE IF t.tag \in {"ALPHA", "VAR"} THEN expr(lex(t, c))
      ELSE IF t.tag \in {"FULL", "BY", "INTO"}
        THEN IF previous_token = no_object THEN parsed(ch, "none", no_object)
             ELSE operator(parse(Tail(tokens), no_object, ch, c))
      ELSE parsed(ch, "none", no_object)

\* The lexemes: a blade literal, a caller variable, the literal tokens.
lexeme(tag, index, slot) == [tag |-> tag, index |-> index, sign |-> 1, slot |-> slot]
tok_ALPHA(index) == lexeme("ALPHA", index, 0)
tok_VAR(n)       == lexeme("VAR", <<>>, n)
tok_FULL         == lexeme("FULL", <<>>, 0)
tok_BY           == lexeme("BY", <<>>, 0)
tok_INTO         == lexeme("INTO", <<>>, 0)
tok_PAREN_CLOSE  == lexeme("PAREN_CLOSE", <<>>, 0)

\* The expression texts the model evaluates (x1, x2 are caller variables):
\* "a0 a1", "a0 ^ a1", "a1 / a0", "a0 a1 /", "/ a0", "x1 ^ x2",
\* "a0 \ a1 )", "a0 a1 a01".
expressions ==
  { << tok_ALPHA(<<"0">>), tok_ALPHA(<<"1">>) >>,
    << tok_ALPHA(<<"0">>), tok_FULL, tok_ALPHA(<<"1">>) >>,
    << tok_ALPHA(<<"1">>), tok_BY, tok_ALPHA(<<"0">>) >>,
    << tok_ALPHA(<<"0">>), tok_ALPHA(<<"1">>), tok_BY >>,
    << tok_BY, tok_ALPHA(<<"0">>) >>,
    << tok_VAR(1), tok_FULL, tok_VAR(2) >>,
    << tok_ALPHA(<<"0">>), tok_INTO, tok_ALPHA(<<"1">>), tok_PAREN_CLOSE >>,
    << tok_ALPHA(<<"0">>), tok_ALPHA(<<"1">>), tok_ALPHA(<<"0","1">>) >> }

(***************************************************************************)
(* The evaluator on values of every kind (utils/lexparse.py), with         *)
(* brackets, projection, the commutator and the postfix dagger; the        *)
(* product cache is left out here.  A text is the sequence of its lexemes, *)
(* written with one space between them.  PLUS and the MVEC literal are not *)
(* among the lexemes of the model.                                         *)
(***************************************************************************)

Token(tag, val) == [tag |-> tag, val |-> val, raised |-> "none"]

\* The place in the token stream where the lexer raises e when it is pulled.
lexer_raises(e) == [tag |-> "raise", val |-> Raise(e), raised |-> e]

\* Token("EXPR", value) for a value the lexer built, or its exception.
expr_token(value) ==
  IF value.raised # "none" THEN lexer_raises(value.raised) ELSE Token("EXPR", value)

\* int(text) for the text of an INDEX lexeme.
int(text) ==
  CASE text = <<"0">> -> 0 [] text = <<"1">> -> 1 [] text = <<"2">> -> 2
    [] text = <<"3">> -> 3 [] text = <<"4">> -> 4

\* The DIFF tag "<([p0213, -]*)\>" comes before the literals: "<", then
\* only lexemes written with its characters (digits but 4, commas, p with
\* digits), then ">" is one DIFF lexeme.
\* The position of that ">" among the lexemes after "<", 0 if there is none.
diff_end(after) ==
  LET ends == {n \in 1..Len(after) :
                 /\ after[n].tag = "ANGLE_CLOSE"
                 /\ \A k \in 1..(n - 1) :
                      \/ after[k].tag \in {"COMMA", "TERM"}
                      \/ after[k].tag = "INDEX" /\ after[k].index # <<"4">>}
  IN  IF ends = {} THEN 0 ELSE CHOOSE n \in ends : TRUE

\* re.split(", |,| ", text.strip()) on the text of a DIFF lexeme: an index
\* for every digit and for every p with its digits, an empty string at
\* every comma and for an empty text.
diff_indices(inner) ==
  IF inner = <<>> THEN << <<>> >>
  ELSE [n \in 1..Len(inner) |->
          CASE inner[n].tag = "COMMA" -> <<>>
            [] inner[n].tag = "TERM" -> <<"p">> \o inner[n].index
            [] OTHER -> inner[n].index]

\* re.finditer(self.tags, string): the lexemes the tags match in the text.
RECURSIVE matches(_)
matches(text) ==
  LET diff(end) ==
        IF end = 0 THEN <<Head(text)>> \o matches(Tail(text))
        ELSE << [tag |-> "DIFF", index |-> <<>>, sign |-> 1, slot |-> 0,
                 wrt |-> diff_indices(SubSeq(text, 2, end))] >>
               \o matches(SubSeq(text, end + 2, Len(text)))
  IN  IF text = <<>> THEN <<>>
      ELSE IF Head(text).tag = "ANGLE_OPEN" THEN diff(diff_end(Tail(text)))
      ELSE <<Head(text)>> \o matches(Tail(text))

\* The token ArpyLexer.lex yields for one lexeme under the configuration c;
\* names are looked up in vars, the variables of the context and the caller.
lex_token(l, c, names) ==
  CASE l.tag = "ALPHA" -> expr_token(Alpha(l.index, l.sign, c))
    [] l.tag = "TERM" -> expr_token(Term_from(Alpha(l.index, l.sign, c),
                                              <<Xi(l.index, <<>>, 1)>>, c))
    [] l.tag = "DIFF" -> expr_token(AR_differential(l.wrt, c))
    [] l.tag = "INDEX" -> Token("INDEX", int(l.index))
    [] l.tag = "VAR" -> IF l.slot \in 1..Len(names) THEN Token("EXPR", names[l.slot])
                        ELSE lexer_raises("AR_Error")
    [] OTHER -> Token(l.tag, l.tag)

\* ArpyLexer.lex: the tokens in the order the parser pulls them.
ArpyLexer_lex(text, c, names) ==
  LET lexed(ls) == [n \in 1..Len(ls) |-> lex_token(ls[n], c, names)]
  IN  lexed(matches(text))

\* What leaves a call of parse or of sub_expr: a return value or an exception.
returned(ret) == [raised |-> "none", ret |-> ret]

\* An exception raised inside the try of parse: StopIteration returns
\* previous_token, AR_Error returns None, any other exception goes on.
raised_in_parse(e, previous_token) ==
  IF e = "StopIteration" THEN returned(previous_token)
  ELSE IF e = "AR_Error" THEN returned(None)
  ELSE [raised |-> e, ret |-> None]

\* token.val, where the token may be None.
token_val(token) == IF token = None THEN Raise("AttributeError") ELSE token.val

\* The first place where the deliminator or an exception of the lexer is.
first_stop(tokens, deliminator_tag) ==
  LET stops == {n \in 1..Len(tokens) :
                  tokens[n].tag = deliminator_tag \/ tokens[n].tag = "raise"}
  IN  IF stops = {} THEN 0 ELSE CHOOSE n \in stops : \A k \in stops : n <= k

\* ArpyParser.sub_expr: the first next(tokens) is outside the try, so a
\* stream that has ended raises StopIteration; a stream that ends later
\* raises AR_Error.
sub_expr(tokens, deliminator_tag) ==
  LET cut(at) ==
        IF at = 0 THEN [raised |-> "AR_Error", sub |-> <<>>, rest |-> <<>>]
        ELSE IF tokens[at].tag = "raise"
          THEN [raised |-> tokens[at].raised, sub |-> <<>>, rest |-> <<>>]
        ELSE [raised |-> "none", sub |-> SubSeq(tokens, 1, at - 1),
              rest |-> SubSeq(tokens, at + 1, Len(tokens))]
  IN  IF tokens = <<>> THEN [raised |-> "StopIteration", sub |-> <<>>, rest |-> <<>>]
      ELSE cut(first_stop(tokens, deliminator_tag))

\* commutator as callers reach it: only (Alpha, Alpha) was added.
commutator_any(x, y, c) ==
  IF x.raised # "none" THEN x
  ELSE IF y.raised # "none" THEN y
  ELSE IF dispatch_on({ <<"Alpha", "Alpha">> }, x, y) = <<"Alpha", "Alpha">>
    THEN commutator(x, y, c)
  ELSE Raise("NotImplementedError")

\* operator.add: only MultiVector has __add__, for a Term or a MultiVector.
operator_add(x, y) ==
  IF x.raised # "none" THEN x
  ELSE IF y.raised # "none" THEN y
  ELSE IF kind(x) # "MultiVector" THEN Raise("TypeError")
  ELSE IF kind(y) = "Term" THEN MultiVector(x._terms \o <<y>>, x.cfg)
  ELSE IF kind(y) = "MultiVector" THEN MultiVector_add(x, y)
  ELSE Raise("TypeError")

\* A slip: the operands of a binary operator change places.
evaluated_operands_swapped(tag, x, y, c) ==
  CASE tag = "FULL" -> full_any(y, x, c)
    [] tag = "BY" -> div_by_any(y, x, c)
    [] tag = "INTO" -> div_into_any(y, x, c)
    [] tag = "PLUS" -> operator_add(y, x)
    [] tag = "DAG" -> hermitian(x, c)
    [] tag = "ANGLE_OPEN" -> IF x.raised # "none" THEN x ELSE project(x, y.grade, config)
    [] tag = "SQUARE_OPEN" -> commutator_any(x, y, config)

\* What the parser calls for a token: ArpyParser.binops (PLUS without cfg)
\* and unops_postfix with cfg=self.cfg, project and commutator without cfg,
\* so under the global config.
evaluated(tag, x, y, c) ==
  CASE tag = "FULL" -> full_any(x, y, c)
    [] tag = "BY" -> div_by_any(x, y, c)
    [] tag = "INTO" -> div_into_any(x, y, c)
    [] tag = "PLUS" -> operator_add(x, y)
    [] tag = "DAG" -> hermitian(x, c)
    [] tag = "ANGLE_OPEN" -> IF x.raised # "none" THEN x ELSE project(x, y.grade, config)
    [] tag = "SQUARE_OPEN" -> commutator_any(x, y, config)

\* What one turn of the loop of ArpyParser.parse does next: return from
\* parse, go round again with a new previous_token, or call an operation
\* and go round again with its value as previous_token.
return(out) == [do |-> "return", out |-> out]
go_round(previous_token, rest) == [do |-> "go round", token |-> previous_token, rest |-> rest]
call_op(tag, x, y, rest) == [do |-> "call", tag |-> tag, x |-> x, y |-> y, rest |-> rest]

RECURSIVE parse_tokens(_, _, _)

\* The body of the loop of ArpyParser.parse for the next token.
parse_step(tokens, previous_token, c) ==
  LET raise(e) == return(raised_in_parse(e, previous_token))
      \* a sub-expression in parentheses was parsed
      paren_parsed(sub_expr_token, rest) ==
        IF sub_expr_token.raised # "none" THEN return(sub_expr_token)
        ELSE IF previous_token # None
          THEN call_op("FULL", previous_token.val, token_val(sub_expr_token.ret), rest)
        ELSE go_round(sub_expr_token.ret, rest)
      paren(s) ==
        IF s.raised # "none" THEN raise(s.raised)
        ELSE paren_parsed(parse_tokens(s.sub, None, c), s.rest)
      \* a binary operator: the rest of the stream is its right argument
      operator(RHS) ==
        IF RHS.raised # "none" THEN return(RHS)
        ELSE IF RHS.ret = None THEN return(returned(None))
        ELSE IF RHS.ret.tag # "EXPR" THEN return(returned(None))
        ELSE call_op(Head(tokens).tag, previous_token.val, RHS.ret.val, <<>>)
      \* a projection: the argument, then the INDEX token
      angle_parsed(arg, rest) ==
        IF arg.raised # "none" THEN return(arg)
        ELSE IF rest = <<>> THEN raise("StopIteration")
        ELSE IF Head(rest).tag = "raise" THEN raise(Head(rest).raised)
        ELSE IF Head(rest).tag # "INDEX" THEN raise("AR_Error")
        ELSE call_op("ANGLE_OPEN", token_val(arg.ret),
                     [grade |-> Head(rest).val, raised |-> "none"], Tail(rest))
      angle(s) ==
        IF s.raised # "none" THEN raise(s.raised)
        ELSE angle_parsed(parse_tokens(s.sub, None, c), s.rest)
      \* a commutator: both sub-expressions are pulled and parsed first
      square_parsed(LHS, RHS, rest) ==
        IF RHS.raised # "none" THEN return(RHS)
        ELSE call_op("SQUARE_OPEN", token_val(LHS.ret), token_val(RHS.ret), rest)
      square_right(LHS, s) ==
        IF s.raised # "none" THEN raise(s.raised)
        ELSE square_parsed(LHS, parse_tokens(s.sub, None, c), s.rest)
      square_left(LHS, rest) ==
        IF LHS.raised # "none" THEN return(LHS)
        ELSE square_right(LHS, sub_expr(rest, "SQUARE_CLOSE"))
      square(s) ==
        IF s.raised # "none" THEN raise(s.raised)
        ELSE square_left(parse_tokens(s.sub, None, c), s.rest)
  IN  IF tokens = <<>> THEN raise("StopIteration")
      ELSE CASE Head(tokens).tag = "raise" -> raise(Head(tokens).raised)
             [] Head(tokens).tag = "PAREN_OPEN" -> paren(sub_expr(Tail(tokens), "PAREN_CLOSE"))
             [] Head(tokens).tag = "EXPR" ->
                  IF previous_token # None
                    THEN call_op("FULL", previous_token.val, Head(tokens).val, Tail(tokens))
                  ELSE go_round(Head(tokens), Tail(tokens))
             [] Head(tokens).tag \in {"FULL", "BY", "INTO", "PLUS"} ->
                  IF previous_token = None THEN raise("AR_Error")
                  ELSE operator(parse_tokens(Tail(tokens), None, c))
             [] Head(tokens).tag = "DAG" ->
                  IF previous_token = None THEN raise("AR_Error")
                  ELSE call_op("DAG", previous_token.val, None, Tail(tokens))
             [] Head(tokens).tag = "ANGLE_OPEN" -> angle(sub_expr(Tail(tokens), "ANGLE_CLOSE"))
             [] Head(tokens).tag = "SQUARE_OPEN" -> square(sub_expr(Tail(tokens), "COMMA"))
             [] OTHER -> return(returned(None))

\* ArpyParser.parse on the tokens not yet pulled, with previous_token.
parse_tokens(tokens, previous_token, c) ==
  LET called(val, rest) ==
        IF val.raised # "none" THEN raised_in_parse(val.raised, previous_token)
        ELSE parse_tokens(rest, Token("EXPR", val), c)
      taken(step) ==
        IF step.do = "return" THEN step.out
        ELSE IF step.do = "go round" THEN parse_tokens(step.rest, step.token, c)
        ELSE called(evaluated(step.tag, step.x, step.y, c), step.rest)
  IN  taken(parse_step(tokens, previous_token, c))

\* ARContext.__call__: the value of the token parse returns, None if parse
\* returns None, or the exception that leaves parse.
ARContext_call(text, c, names) ==
  LET result(out) == IF out.raised # "none" THEN Raise(out.raised)
                     ELSE IF out.ret = None THEN None
                     ELSE out.ret.val
  IN  result(parse_tokens(ArpyLexer_lex(text, c, names), None, c))

(***************************************************************************)
(* The caller: building blades, calling find_prod, evaluating expressions  *)
(***************************************************************************)

\* The state of the cache variables when nothing has been called.
CacheIdle ==
  /\ slots = [n \in 1..NSlots |-> no_object]
  /\ cache = <<>>
  /\ call = [kind |-> "none", c |-> 0, vi |-> no_result, vj |-> no_result,
             raised |-> "none", ret |-> no_result, cache_was |-> <<>>]
  /\ ncalls = 0

\* The indices the caller builds blades with.
caller_indices == { <<"0">>, <<"1">> }

\* Slot d is bound to another object: the object it held stays alive only
\* as a key of the cache, where nothing can change it any more.
rebind(ch, d) ==
  [k \in 1..Len(ch) |->
     [ch[k] EXCEPT !.i = IF @.slot = d THEN handle(0, 0, @.val) ELSE @,
                   !.j = IF @.slot = d THEN handle(0, 0, @.val) ELSE @]]

\* The handle slot d holds after `d = h`: a new object becomes the slot's own.
bound(d, h) == IF h.entry > 0 THEN h ELSE handle(d, 0, h.val)

\* One more step of the caller (at most MaxCalls of them).
Called ==
  /\ ncalls < MaxCalls
  /\ ncalls' = ncalls + 1
  /\ UNCHANGED <<iter_order, prod_vars, config_vars, mvec_vars>>

\* x = Alpha(index, sign, cfg=c)
NewBlade(d, index, sign, n) ==
  /\ Called
  /\ slots' = [slots EXCEPT ![d] = handle(d, 0, Alpha(index, sign, cache_configs[n]))]
  /\ cache' = rebind(cache, d)
  /\ call' = [kind |-> "new", c |-> n, vi |-> no_result, vj |-> no_result,
              raised |-> "none", ret |-> no_result, cache_was |-> cache]

\* d = find_prod(slots[i], slots[j], cfg=c); on an exception d keeps its value.
FindProd(i, j, n, d) ==
  /\ Called
  /\ slots[i] # no_object /\ slots[j] # no_object
  /\ \E out \in {wrapped(cache, slots[i], slots[j], cache_configs[n])} :
         /\ Len(out.cache) <= MaxCache
         /\ call' = [kind |-> "find_prod", c |-> n, vi |-> slots[i].val, vj |-> slots[j].val,
                     raised |-> out.raised, ret |-> out.ret.val, cache_was |-> cache]
         /\ IF out.raised = "none"
              THEN /\ slots' = [slots EXCEPT ![d] = bound(d, out.ret)]
                   /\ cache' = rebind(out.cache, d)
              ELSE /\ slots' = slots
                   /\ cache' = out.cache

\* Term(slots[n]): Term.__init__ resets the sign of a negative blade it is
\* given to +1, in place.  Every handle of that object sees the new sign.
TermResetsSign(n) ==
  /\ Called
  /\ slots[n] # no_object
  /\ slots[n].val._sign = -1
  /\ LET obj == slots[n]
         set(h) == IF same_object(h, obj) THEN [h EXCEPT !.val._sign = 1] ELSE h
     IN  /\ slots' = [m \in 1..NSlots |-> set(slots[m])]
         /\ cache' = [k \in 1..Len(cache) |->
                        [cache[k] EXCEPT !.i = set(@), !.j = set(@),
                                         !.value = IF obj.entry = k
                                                     THEN [@ EXCEPT !._sign = 1] ELSE @]]
  /\ call' = [kind |-> "term", c |-> 0, vi |-> no_result, vj |-> no_result,
              raised |-> "none", ret |-> no_result, cache_was |-> cache]

\* ARContext.__call__(text) on a context built with configuration n; a
\* value that is a new object is kept in slot d.
Evaluate(text, n, d) ==
  /\ Called
  /\ \E out \in {parse(text, no_object, cache, cache_configs[n])} :
      /\ Len(out.cache) <= MaxCache
      /\ call' = [kind |-> "eval", c |-> n, vi |-> no_result, vj |-> no_result,
                  raised |-> out.raised,
                  ret |-> IF out.ret = no_object THEN Raise("None") ELSE out.ret.val,
                  cache_was |-> cache]
      /\ IF out.raised = "none" /\ out.ret # no_object /\ out.ret.slot = 0
           THEN /\ slots' = [slots EXCEPT ![d] = bound(d, out.ret)]
                /\ cache' = rebind(out.cache, d)
           ELSE /\ slots' = slots
                /\ cache' = out.cache

CacheInit ==
  /\ CacheIdle
  /\ iter_order = <<"0","1","2","3">>
  /\ cfg = cache_configs[1]
  /\ a = no_result /\ b = no_result /\ op = "none" /\ res = no_result
  /\ ConfigIdle
  /\ MvecIdle

CacheNext ==
  \/ \E d \in 1..NSlots, index \in caller_indices, sign \in {1, -1},
       n \in 1..Len(cache_configs) : NewBlade(d, index, sign, n)
  \/ \E i, j, d \in 1..NSlots, n \in 1..Len(cache_configs) : FindProd(i, j, n, d)
  \/ \E n \in 1..NSlots : TermResetsSign(n)
  \/ \E text \in expressions, n \in 1..Len(cache_configs), d \in 1..NSlots :
       Evaluate(text, n, d)

SpecCache == CacheInit /\ [][CacheNext]_vars

(***************************************************************************)
(* The blade operations applied to every pair of operands                  *)
(***************************************************************************)

\* Every signed blade of a configuration: Alpha(index, sign, cfg=c).
Blades(c) == {Alpha(c._allowed[n], s, c) : n \in 1..Len(c._allowed), s \in {1, -1}}

\* The configurations of the tests: both labellings under every metric.
Configs == {ARConfig(al, m, "into") : al \in {allowed, io_allowed}, m \in metrics}

\* Iteration orders of a set of symbols that the model lets a process have.
iter_orders == { <<"0","1","2","3">>, <<"3","2","1","0">> }

ProdInit ==
  /\ cfg \in Configs
  /\ iter_order \in iter_orders
  /\ a \in Blades(cfg)
  /\ b \in Blades(cfg)
  /\ op = "none"
  /\ res = no_result
  /\ CacheIdle
  /\ ConfigIdle
  /\ MvecIdle

Apply(name, value) ==
  /\ op = "none"
  /\ op' = name
  /\ res' = value
  /\ UNCHANGED <<cfg, iter_order, a, b, cache_vars, config_vars, mvec_vars>>

DoFull       == Apply("full", full(a, b, cfg))
DoInverse    == Apply("inverse", inverse(a, cfg))
DoDivBy      == Apply("div_by", div_by(a, b, cfg))
DoDivInto    == Apply("div_into", div_into(a, b, cfg))
DoCommutator == Apply("commutator", commutator(a, b, cfg))

ProdNext == DoFull \/ DoInverse \/ DoDivBy \/ DoDivInto \/ DoCommutator

SpecProd == ProdInit /\ [][ProdNext]_vars

\* Associativity is examined on every product a * b of two signed blades,
\* under one iteration order.
AssocInit == ProdInit /\ iter_order = <<"0","1","2","3">>

AssocNext == DoFull

SpecAssoc == AssocInit /\ [][AssocNext]_vars

(***************************************************************************)
(* Assignments to a configuration                                          *)
(***************************************************************************)

\* The default list with the labels in `from` replaced by those in `to`.
relabel(from, to) ==
  [n \in 1..16 |-> IF \E k \in 1..Len(from) : allowed[n] = from[k]
                     THEN to[CHOOSE k \in 1..Len(from) : allowed[n] = from[k]]
                   ELSE allowed[n]]

\* The lists assigned to allowed: the two labellings, the default reversed,
\* a list that is too short, one with other characters, lists of 16
\* valid labels in which a grade or a generator is missing, and a list of
\* 16 valid labels in which 23 stands twice (in place of 31).
allowed_values ==
  { allowed,
    io_allowed,
    [n \in 1..16 |-> allowed[17 - n]],
    SubSeq(allowed, 1, 15),
    [n \in 1..16 |-> allowed[n] \o <<"f", "o", "o">>],
    [n \in 1..16 |-> <<"p">>],
    relabel(<< <<"0","1","2","3">> >>, << <<"p">> >>),
    relabel(<< <<"0","1">>, <<"0","2">>, <<"0","3">> >>, << <<"1">>, <<"2">>, <<"3">> >>),
    relabel(<< <<"1">> >>, << <<"p">> >>),
    relabel(<< <<"0">> >>, << <<"p">> >>),
    relabel(<< <<"3","1">> >>, << <<"2","3">> >>) }

\* The values assigned to metric: strings and tuples, valid and not.
metric_values ==
  { <<"+", "-", "-", "-">>, <<"-", "+", "+", "+">>, <<"1", "1", "1", "1">>,
    <<"+", "-", "-">>, <<"f", "o", "o", "p">>, <<"1", "-1", "-1">>,
    <<"not", "valid", "because", "reasons">>, <<"1", "-", "1", "1">> }

\* One assignment (or reset) on conf; an exception leaves conf as the
\* setter left it at the raise.
Assign(attr, out) ==
  /\ conf' = out.cfg
  /\ assignment' = [attr |-> attr, raised |-> out.raised, was |-> conf]
  /\ UNCHANGED <<iter_order, prod_vars, cache_vars, mvec_vars>>

SetAllowed == \E value \in allowed_values : Assign("allowed", allowed_setter(conf, value))
SetMetric  == \E signs \in metric_values : Assign("metric", metric_setter(conf, signs))
Reset      == Assign("reset", reset(conf))

ConfigInit ==
  /\ ConfigIdle
  /\ CacheIdle
  /\ iter_order = <<"0","1","2","3">>
  /\ cfg = config
  /\ a = no_result /\ b = no_result /\ op = "none" /\ res = no_result
  /\ MvecIdle

ConfigNext == SetAllowed \/ SetMetric \/ Reset

SpecConfig == ConfigInit /\ [][ConfigNext]_vars

(***************************************************************************)
(* MultiVectors under the default configuration: mv is built from a list   *)
(* of terms, then cancel_terms is called on it, or it is rebound to        *)
(* mv - mv.                                                                *)
(***************************************************************************)

\* The longest list of terms a MultiVector is built from.
MaxTerms == 4

\* How many times in a row cancel_terms is called.
MaxCancels == 2

\* A Term as a differential leaves it: with partials on the term.
with_partials(t, partials) == [t EXCEPT !._component_partials = sorted_partials(partials)]

\* The terms the lists are made of: blades a1 and a2 with magnitudes named
\* after a blade (p, 1), with a name of the caller (f), with two magnitudes
\* in either order, and with partials on the term; each with either sign.
mvec_terms(c) ==
  LET a1 == Alpha(<<"1">>, 1, c)
      a2 == Alpha(<<"2">>, 1, c)
      a0 == Alpha(<<"0">>, 1, c)
      both(t) == {t, Term_neg(t)}
  IN  both(Term_of(a1, c))
        \cup both(Term(a1, <<Xi(<<"p">>, <<>>, 1)>>, 1, c))
        \cup both(Term(a1, <<Xi(<<"f">>, <<>>, 1)>>, 1, c))
        \cup both(Term(a1, <<Xi(<<"1">>, <<>>, 1), Xi(<<"2">>, <<>>, 1)>>, 1, c))
        \cup both(Term(a1, <<Xi(<<"2">>, <<>>, 1), Xi(<<"1">>, <<>>, 1)>>, 1, c))
        \cup both(with_partials(Term(a1, <<Xi(<<"1">>, <<>>, 1), Xi(<<"2">>, <<>>, 1)>>, 1, c), <<a0>>))
        \cup both(Term_of(a2, c))

\* The lists of at most n of the given items.
lists(items, n) == UNION {[1..k -> items] : k \in 0..n}

MvecInit ==
  /\ cfg = config
  /\ iter_order = <<"0","1","2","3">>
  /\ a = no_result /\ b = no_result /\ op = "none" /\ res = no_result
  /\ CacheIdle
  /\ ConfigIdle
  /\ mv \in {MultiVector(terms, cfg) : terms \in lists(mvec_terms(cfg), MaxTerms)}
  /\ mv_call = [name |-> "none", was |-> no_result, calls |-> 0, built |-> "list"]

\* mv.cancel_terms(): the object is changed in place.
CancelTerms ==
  /\ mv_call.calls < MaxCancels
  /\ mv' = cancel_terms(mv)
  /\ mv_call' = [name |-> "cancel_terms", was |-> mv, calls |-> mv_call.calls + 1,
                 built |-> mv_call.built]
  /\ UNCHANGED <<iter_order, prod_vars, cache_vars, config_vars>>

\* mv = mv - mv
SubSelf ==
  /\ mv_call.name = "none"
  /\ 2 * Len(mv._terms) <= MaxTerms
  /\ mv' = MultiVector_sub(mv, mv)
  /\ mv_call' = [name |-> "__sub__", was |-> mv, calls |-> 0, built |-> "m - m"]
  /\ UNCHANGED <<iter_order, prod_vars, cache_vars, config_vars>>

MvecNext == CancelTerms \/ SubSelf

SpecMvec == MvecInit /\ [][MvecNext]_vars

(***************************************************************************)
(* rev, hermitian and project applied to a value of each kind, under both  *)
(* labellings and every metric, the configuration passed as the tests of   *)
(* dagger pass it.                                                         *)
(***************************************************************************)

\* The longest list of terms an operand MultiVector is built from, but for
\* MultiVector(cfg.allowed).
MaxOperandTerms == 2

\* The highest grade projected on.
MaxGrade == 4

\* Term(alpha) of every signed blade.
operand_terms(c) == {Term_of(x, c) : x \in Blades(c)}

\* MultiVector(cfg.allowed): a positive term of every blade.
all_blades(c) == MultiVector([n \in 1..Len(c._allowed) |-> Alpha(c._allowed[n], 1, c)], c)

operands(c) ==
  Blades(c) \cup operand_terms(c) \cup {all_blades(c)}
    \cup {MultiVector(terms, c) : terms \in lists(operand_terms(c), MaxOperandTerms)}

OpsInit ==
  /\ cfg \in Configs
  /\ iter_order = <<"0","1","2","3">>
  /\ a \in operands(cfg)
  /\ b = no_result
  /\ op = "none"
  /\ res = no_result
  /\ CacheIdle
  /\ ConfigIdle
  /\ MvecIdle

DoRev == Apply("rev", rev(a))

\* rev applied to what rev returned.
DoRevAgain ==
  /\ op = "rev"
  /\ op' = "rev rev"
  /\ res' = rev(res)
  /\ UNCHANGED <<cfg, iter_order, a, b, cache_vars, config_vars, mvec_vars>>

DoHermitian == Apply("hermitian", hermitian(a, cfg))

\* project(a, grade, cfg); b keeps the grade.
DoProject(grade) ==
  /\ op = "none"
  /\ op' = "project"
  /\ b' = [grade |-> grade, raised |-> "none"]
  /\ res' = project(a, grade, cfg)
  /\ UNCHANGED <<cfg, iter_order, a, cache_vars, config_vars, mvec_vars>>

OpsNext ==
  \/ DoRev
  \/ DoRevAgain
  \/ DoHermitian
  \/ \E grade \in 0..MaxGrade : DoProject(grade)

SpecOps == OpsInit /\ [][OpsNext]_vars

(***************************************************************************)
(* The operations of two arguments applied to a pair of values of any      *)
(* kinds, under both labellings, two metrics and both division types; a    *)
(* term is differentiated, and the result differentiated again.            *)
(***************************************************************************)

\* The longest list of partials a term differentiated in the model has.
MaxPartials == 2

pair_configs ==
  {ARConfig(al, m, div) : al \in {allowed, io_allowed},
                          m \in {metric, <<-1, 1, 1, 1>>}, div \in {"by", "into"}}

pair_blades(c) ==
  { Alpha(<<"1">>, 1, c), Alpha(<<"2">>, -1, c), Alpha(<<"0">>, 1, c),
    Alpha(<<"1","2">>, 1, c) }

\* Terms of one magnitude and a term of two.
pair_terms(c) ==
  { Term_of(Alpha(<<"1">>, 1, c), c), Term_neg(Term_of(Alpha(<<"0">>, 1, c), c)),
    Term_of(Alpha(<<"3">>, 1, c), c),
    Term(Alpha(<<"0">>, 1, c), <<Xi(<<"1">>, <<>>, 1), Xi(<<"2">>, <<>>, 1)>>, 1, c) }

pair_mvecs(c) ==
  { MultiVector(<<>>, c),
    MultiVector(<<Alpha(<<"0">>, 1, c), Alpha(<<"3">>, 1, c), Alpha(<<"1","2">>, -1, c)>>, c),
    MultiVector(<<Term(Alpha(<<"0">>, 1, c), <<Xi(<<"1">>, <<>>, 1), Xi(<<"2">>, <<>>, 1)>>, 1, c),
                  Alpha(<<"p">>, 1, c)>>, c) }

pair_differentials(c) ==
  { AR_differential(<< <<"1">> >>, c), AR_differential(<< <<"1">>, <<"2">> >>, c),
    AR_differential(<< <<"0">>, <<"1">>, <<"2">>, <<"3">> >>, c) }

pair_operands(c) ==
  pair_blades(c) \cup pair_terms(c) \cup pair_mvecs(c) \cup pair_differentials(c) \cup {None}

PairsInit ==
  /\ cfg \in pair_configs
  /\ iter_order = <<"0","1","2","3">>
  /\ a \in pair_operands(cfg)
  /\ b \in pair_operands(cfg)
  /\ op = "none"
  /\ res = no_result
  /\ CacheIdle
  /\ ConfigIdle
  /\ MvecIdle

DoFullAny == Apply("full", full_any(a, b, cfg))

DoDivByAny == Apply("div_by", div_by_any(a, b, cfg))

DoDivIntoAny == Apply("div_into", div_into_any(a, b, cfg))

\* How many partials the term carries, on its one magnitude or on itself.
partials_of(t) ==
  IF Len(t._components) = 1 THEN t._components[1]._partials ELSE t._component_partials

\* term_partial(a, b, cfg, None) on a term a and a blade b.
DoTermPartial ==
  /\ kind(a) = "Term" /\ kind(b) = "Alpha"
  /\ Apply("term_partial", term_partial(a, b, cfg, ""))

\* term_partial on the term that term_partial returned, by the blade wrt.
DoTermPartialAgain(wrt) ==
  /\ op = "term_partial"
  /\ kind(res) = "Term"
  /\ Len(partials_of(res)) < MaxPartials
  /\ a' = res
  /\ b' = wrt
  /\ res' = term_partial(res, wrt, cfg, "")
  /\ UNCHANGED <<cfg, iter_order, op, cache_vars, config_vars, mvec_vars>>

\* The texts a caller with the variables x = a and y = b evaluates.
tok_TERM(index) == lexeme("TERM", index, 0)

quotient_texts ==
  ("x / y" :> <<tok_VAR(1), tok_BY, tok_VAR(2)>>)
    @@ ("x \\ y" :> <<tok_VAR(1), tok_INTO, tok_VAR(2)>>)
    @@ ("a1 / p2" :> <<tok_ALPHA(<<"1">>), tok_BY, tok_TERM(<<"2">>)>>)

\* ar = ARContext(cfg=cfg); ar(text)
DoEvaluate(text) == Apply(text, ARContext_call(quotient_texts[text], cfg, <<a, b>>))

PairsNext ==
  \/ DoFullAny
  \/ DoDivByAny
  \/ DoDivIntoAny
  \/ DoTermPartial
  \/ \E wrt \in pair_blades(cfg) : DoTermPartialAgain(wrt)
  \/ \E text \in DOMAIN quotient_texts : DoEvaluate(text)

SpecPairs == PairsInit /\ [][PairsNext]_vars

(***************************************************************************)
(* A Term constructed from a signed blade, signed magnitudes and a sign,   *)
(* and the operations that give a Term applied to it one after another     *)
(***************************************************************************)

\* The most operations applied to the constructed Term.
MaxSteps == 2

\* Term.__init__ for an Alpha (a string with a leading "-" gives the blade
\* and the sign the same way); without components the one component is
\* Xi(alpha).
Term___init__(alpha, given, components, sign, c) ==
  IF given THEN Term(alpha, components, sign, c)
  ELSE Term(alpha, <<Xi(alpha._index, <<>>, 1)>>, sign, c)

\* MultiVector.__mul__ by an int: the terms are copied, their signs flipped
\* for a negative factor, and repeated; the result is built under the
\* default configuration.
MultiVector___mul__(m, other) ==
  LET flipped == IF other < 0 THEN [n \in 1..Len(m._terms) |-> Term_neg(m._terms[n])]
                 ELSE m._terms
      times == IF other < 0 THEN -1 * other ELSE other
      repeated == [n \in 1..(Len(flipped) * times) |-> flipped[((n - 1) % Len(flipped)) + 1]]
  IN  MultiVector(sorted_terms(repeated), config)

\* The sign a product of two blades produces when both are positive.
produced_sign(x, y, c) ==
  LET of(p) == IF p.raised # "none" THEN 1 ELSE p._sign
  IN  of(find_prod([x EXCEPT !._sign = 1], [y EXCEPT !._sign = 1], c))

\* The product of the signs supplied to Term.__init__.
signs_supplied(alpha, given, components, sign) ==
  LET negatives == IF given THEN Cardinality({n \in 1..Len(components) : components[n]._sign = -1})
                   ELSE 0
  IN  alpha._sign * sign * (IF negatives % 2 = 0 THEN 1 ELSE -1)

\* The magnitudes a Term is constructed with.
supplied_components ==
  { <<Xi(<<"1">>, <<>>, 1)>>, <<Xi(<<"1">>, <<>>, -1)>>,
    <<Xi(<<"1">>, <<>>, -1), Xi(<<"2">>, <<>>, -1)>>,
    <<Xi(<<"2">>, <<>>, 1), Xi(<<"1">>, <<>>, -1)>> }

term_configs == {config, ARConfig(io_allowed, <<-1, 1, 1, 1>>, "by")}

\* The blades and terms the constructed Term is multiplied with or divided by.
term_operands(c) ==
  pair_blades(c) \cup {Term_neg(Term_of(Alpha(<<"0">>, 1, c), c)), Term_of(Alpha(<<"3">>, 1, c), c)}

\* b holds what is supplied with the blade a; its field signs is the product
\* of the signs supplied and produced so far.
TermInit ==
  /\ cfg \in term_configs
  /\ iter_order = <<"0","1","2","3">>
  /\ a \in pair_blades(cfg) \cup {neg(x) : x \in pair_blades(cfg)}
  /\ b \in {[given |-> g, components |-> comps, sign |-> s, raised |-> "none",
             signs |-> signs_supplied(a, g, comps, s)] :
              g \in BOOLEAN, comps \in supplied_components, s \in {1, -1}}
  /\ op = "none"
  /\ res = no_result
  /\ CacheIdle
  /\ ConfigIdle
  /\ MvecIdle

\* res = Term(a, components, sign, cfg=cfg)
DoConstruct == Apply("Term", Term___init__(a, b.given, b.components, b.sign, cfg))

\* One more operation on the value res, which produces the sign `factor`.
TermStep(name, value, factor) ==
  /\ op # "none"
  /\ ncalls < MaxSteps
  /\ ncalls' = ncalls + 1
  /\ op' = name
  /\ res' = value
  /\ b' = [b EXCEPT !.signs = @ * factor]
  /\ UNCHANGED <<cfg, iter_order, a, slots, cache, call, config_vars, mvec_vars>>

\* res = -res
DoNegTerm == kind(res) = "Term" /\ TermStep("neg", Term_neg(res), -1)

\* res = rev(res)
DoRevTerm ==
  /\ kind(res) = "Term"
  /\ TermStep("rev", rev(res), IF Len(res._alpha._index) \in {1, 4} THEN 1 ELSE -1)

\* res = full(res, x, cfg)
DoFullRight(x) ==
  /\ kind(res) = "Term"
  /\ TermStep("full", full_any(res, x, cfg),
              x._sign * produced_sign(res._alpha, IF kind(x) = "Term" THEN x._alpha ELSE x, cfg))

\* res = full(x, res, cfg)
DoFullLeft(x) ==
  /\ kind(res) = "Term"
  /\ TermStep("full", full_any(x, res, cfg),
              x._sign * produced_sign(IF kind(x) = "Term" THEN x._alpha ELSE x, res._alpha, cfg))

\* res = div_by(res, x, cfg)
DoDivByBlade(x) ==
  /\ kind(res) = "Term"
  /\ TermStep("div_by", div_by_any(res, x, cfg),
              x._sign * produced_sign(x, x, cfg) * produced_sign(res._alpha, x, cfg))

\* res = div_into(x, res, cfg)
DoDivIntoBlade(x) ==
  /\ kind(res) = "Term"
  /\ TermStep("div_into", div_into_any(x, res, cfg),
              x._sign * produced_sign(x, x, cfg) * produced_sign(x, res._alpha, cfg))

\* res = term_partial(res, wrt, cfg, None)
DoPartial(wrt) ==
  /\ kind(res) = "Term"
  /\ Len(partials_of(res)) < MaxPartials
  /\ TermStep("term_partial", term_partial(res, wrt, cfg, ""),
              wrt._sign * produced_sign(wrt, wrt, cfg)
                * (IF cfg.division_type = "by" THEN produced_sign(res._alpha, wrt, cfg)
                   ELSE produced_sign(wrt, res._alpha, cfg)))

\* The MultiVector a Term is put in.
as_mvec(x, c) == IF kind(x) = "Term" THEN MultiVector(<<x>>, c) ELSE x

\* res = -MultiVector([res]) or res = -res
DoNegMvec ==
  /\ kind(res) \in {"Term", "MultiVector"}
  /\ TermStep("-mvec", MultiVector_neg(as_mvec(res, cfg)), -1)

\* res = MultiVector([res]) * k or res = res * k
DoScaleMvec(k) ==
  /\ kind(res) \in {"Term", "MultiVector"}
  /\ TermStep("mvec * k", MultiVector___mul__(as_mvec(res, cfg), k), IF k < 0 THEN -1 ELSE 1)

TermNext ==
  \/ DoConstruct
  \/ DoNegTerm
  \/ DoRevTerm
  \/ \E x \in term_operands(cfg) : DoFullRight(x)
  \/ \E x \in term_operands(cfg) : DoFullLeft(x)
  \/ \E x \in pair_blades(cfg) : DoDivByBlade(x)
  \/ \E x \in pair_blades(cfg) : DoDivIntoBlade(x)
  \/ \E wrt \in pair_blades(cfg) : DoPartial(wrt)
  \/ DoNegMvec
  \/ \E k \in {-2, -1, 2} : DoScaleMvec(k)

SpecTerm == TermInit /\ [][TermNext]_vars

(***************************************************************************)
(* The sign correction at the end of find_prod, on every arrangement of    *)
(* 2, 3 or 4 surviving symbols and every label order for them              *)
(***************************************************************************)

\* s holds no symbol twice.
distinct(s) == \A n, k \in 1..Len(s) : s[n] = s[k] => n = k

\* The surviving symbols in every order, with every order as the label.
arrangements ==
  {[components |-> s, target |-> t, raised |-> "none"] :
     <<s, t>> \in {st \in UNION {[1..k -> {"0", "1", "2", "3"}] \X [1..k -> {"0", "1", "2", "3"}]
                                   : k \in 2..4} :
                     distinct(st[1]) /\ distinct(st[2]) /\ Range(st[1]) = Range(st[2])}}

\* The default configuration with target as the label of its symbols.
config_with(target) ==
  ARConfig(relabel(<<allowed[target_pos(config, target)]>>, <<target>>), metric, "into")

OrderInit ==
  /\ a \in arrangements
  /\ cfg = config_with(a.target)
  /\ iter_order = <<"0","1","2","3">>
  /\ b = no_result
  /\ op = "none"
  /\ res = no_result
  /\ CacheIdle
  /\ ConfigIdle
  /\ MvecIdle

\* The tail of find_prod on the surviving symbols, from sign +1.
DoToTarget == Apply("to_target", to_target([sign |-> 1, components |-> a.components], cfg))

OrderNext == DoToTarget

SpecOrder == OrderInit /\ [][OrderNext]_vars

(***************************************************************************)
(* dual (operations/dual.py) of MultiVectors built under the default and   *)
(* under other configurations                                              *)
(***************************************************************************)

\* dual(mvec).  cfg.q is an attribute update_env sets: an ARConfig that was
\* only constructed has none (has_env is FALSE).  full is called without
\* cfg, so with the module-level default config.
dual(mvec, has_env) ==
  IF mvec.raised # "none" THEN mvec
  ELSE IF kind(mvec) # "MultiVector" THEN Raise("ValueError")
  ELSE IF ~has_env THEN Raise("AttributeError")
  ELSE full_any(neg(Term_alpha(MultiVector(<<Alpha(mvec.cfg._q, 1, mvec.cfg)>>, mvec.cfg)._terms[1])),
                mvec, config)

\* The operands of dual: MultiVectors of up to MaxOperandTerms terms, the
\* MultiVector of all blades, and a blade and a term.
dual_operands(c) ==
  {all_blades(c), Alpha(<<"1">>, 1, c), Term_of(Alpha(<<"1">>, 1, c), c)}
    \cup {MultiVector(terms, c) :
            terms \in lists({Term_of(Alpha(i, s, c), c) :
                               i \in {<<"0">>, <<"1">>, <<"2","3">>, c._q}, s \in {1, -1}},
                            MaxOperandTerms)}

\* b.update_env: has update_env() been called on the configuration (the
\* default config has it called when arpy is imported).
DualInit ==
  /\ cfg \in Configs
  /\ iter_order = <<"0","1","2","3">>
  /\ a \in dual_operands(cfg)
  /\ b \in {[update_env |-> called, raised |-> "none"] :
              called \in (IF cfg = config THEN {TRUE} ELSE {TRUE, FALSE})}
  /\ op = "none"
  /\ res = no_result
  /\ CacheIdle
  /\ ConfigIdle
  /\ MvecIdle

DoDual == Apply("dual", dual(a, b.update_env))

DualNext == DoDual

SpecDual == DualInit /\ [][DualNext]_vars

(***************************************************************************)
(* self < other on two blades, each built under a configuration of its own *)
(***************************************************************************)

\* Alpha.__lt__ for any two blades; allowed_groups is that of the
\* configuration self was built under.  When other._index is not in the
\* list of self, list.index raises ValueError and the handler formats
\* self.cfg, an attribute no Alpha has: AttributeError leaves the call.
Alpha_lt_any(self, other, allowed_groups) ==
  IF index_of(self.allowed \o allowed_groups, other._index) = 0
    THEN Raise("AttributeError")
  ELSE [val |-> index_of(self.allowed \o allowed_groups, self._index)
                  < index_of(self.allowed \o allowed_groups, other._index),
        raised |-> "none"]

\* The configurations the two blades come from: the default, the default
\* with its labels in reverse order, and the labelling with 10, 20, 30.
compare_configs ==
  { config, ARConfig([n \in 1..16 |-> allowed[17 - n]], metric, "into"),
    ARConfig(io_allowed, metric, "into") }

\* a is built under cfg and b under conf.
CompareInit ==
  /\ cfg \in compare_configs
  /\ conf \in compare_configs
  /\ assignment = [attr |-> "none", raised |-> "none", was |-> config]
  /\ iter_order = <<"0","1","2","3">>
  /\ a \in Blades(cfg)
  /\ b \in Blades(conf)
  /\ op = "none"
  /\ res = no_result
  /\ CacheIdle
  /\ MvecIdle

\* a < b
DoLess == Apply("__lt__", Alpha_lt_any(a, b, cfg.allowed_groups))

CompareNext == DoLess

SpecCompare == CompareInit /\ [][CompareNext]_vars

(***************************************************************************)
(* a + b == b + a on MultiVectors: the same terms supplied in two orders   *)
(***************************************************************************)

\* MultiVector.__eq__: sorted(self._terms) == sorted(other._terms), the
\* lists compared item by item with Term.__eq__.
MultiVector___eq__(x, y) ==
  LET same(u, v) == Len(u) = Len(v) /\ \A n \in 1..Len(u) : Term_eq(u[n], v[n])
  IN  [val |-> same(sorted_terms(x._terms), sorted_terms(y._terms)), raised |-> "none"]

SumInit ==
  /\ cfg = config
  /\ iter_order = <<"0","1","2","3">>
  /\ a \in {MultiVector(terms, cfg) : terms \in lists(mvec_terms(cfg), MaxOperandTerms)}
  /\ b \in {MultiVector(terms, cfg) : terms \in lists(mvec_terms(cfg), MaxOperandTerms)}
  /\ op = "none"
  /\ res = no_result
  /\ CacheIdle
  /\ ConfigIdle
  /\ MvecIdle

\* a + b == b + a
DoSumBothWays ==
  Apply("a + b == b + a", MultiVector___eq__(MultiVector_add(a, b), MultiVector_add(b, a)))

SumNext == DoSumBothWays

SpecSum == SumInit /\ [][SumNext]_vars

(***************************************************************************)
(* Evaluating expression texts in an ARContext without variables           *)
(***************************************************************************)

MaxTokens == 4

tok_INDEX(text) == lexeme("INDEX", text, 0)
tok_literal(tag) == lexeme(tag, <<>>, 0)

\* The lexemes of the texts: a1, a2, p2, the unbound name foo, 1, and
\* ^ / ! ( ) < > [ , ]
lexemes ==
  { tok_ALPHA(<<"1">>), tok_ALPHA(<<"2">>), tok_TERM(<<"2">>), tok_VAR(1),
    tok_INDEX(<<"1">>), tok_FULL, tok_BY }
  \cup { tok_literal(tag) : tag \in {"DAG", "PAREN_OPEN", "PAREN_CLOSE", "ANGLE_OPEN",
                                      "ANGLE_CLOSE", "SQUARE_OPEN", "COMMA", "SQUARE_CLOSE"} }

texts == lists(lexemes, MaxTokens)

EvalInit ==
  /\ cfg = config
  /\ iter_order = <<"0","1","2","3">>
  /\ a \in {[text |-> text, raised |-> "none"] : text \in texts}
  /\ b = no_result
  /\ op = "none"
  /\ res = no_result
  /\ CacheIdle
  /\ ConfigIdle
  /\ MvecIdle

\* ar = ARContext(cfg=cfg); ar(text)
EvaluateText == Apply("ar", ARContext_call(a.text, cfg, <<>>))

EvalNext == EvaluateText

SpecEval == EvalInit /\ [][EvalNext]_vars

(***************************************************************************)
(* Texts of three caller variables and one or two binary operators,        *)
(* evaluated for operands of every kind                                    *)
(***************************************************************************)

\* The texts, x, y and z the variables of the caller.
chain_texts ==
  ("x ^ y ^ z" :> <<tok_VAR(1), tok_literal("FULL"), tok_VAR(2), tok_literal("FULL"), tok_VAR(3)>>)
    @@ ("x ^ y / z" :> <<tok_VAR(1), tok_literal("FULL"), tok_VAR(2), tok_literal("BY"), tok_VAR(3)>>)
    @@ ("x ^ y \\ z" :> <<tok_VAR(1), tok_literal("FULL"), tok_VAR(2), tok_literal("INTO"), tok_VAR(3)>>)
    @@ ("x ^ y + z" :> <<tok_VAR(1), tok_literal("FULL"), tok_VAR(2), tok_literal("PLUS"), tok_VAR(3)>>)
    @@ ("x / y ^ z" :> <<tok_VAR(1), tok_literal("BY"), tok_VAR(2), tok_literal("FULL"), tok_VAR(3)>>)
    @@ ("x / y / z" :> <<tok_VAR(1), tok_literal("BY"), tok_VAR(2), tok_literal("BY"), tok_VAR(3)>>)
    @@ ("x / y \\ z" :> <<tok_VAR(1), tok_literal("BY"), tok_VAR(2), tok_literal("INTO"), tok_VAR(3)>>)
    @@ ("x / y + z" :> <<tok_VAR(1), tok_literal("BY"), tok_VAR(2), tok_literal("PLUS"), tok_VAR(3)>>)
    @@ ("x \\ y ^ z" :> <<tok_VAR(1), tok_literal("INTO"), tok_VAR(2), tok_literal("FULL"), tok_VAR(3)>>)
    @@ ("x \\ y / z" :> <<tok_VAR(1), tok_literal("INTO"), tok_VAR(2), tok_literal("BY"), tok_VAR(3)>>)
    @@ ("x \\ y \\ z" :> <<tok_VAR(1), tok_literal("INTO"), tok_VAR(2), tok_literal("INTO"), tok_VAR(3)>>)
    @@ ("x \\ y + z" :> <<tok_VAR(1), tok_literal("INTO"), tok_VAR(2), tok_literal("PLUS"), tok_VAR(3)>>)
    @@ ("x + y ^ z" :> <<tok_VAR(1), tok_literal("PLUS"), tok_VAR(2), tok_literal("FULL"), tok_VAR(3)>>)
    @@ ("x + y / z" :> <<tok_VAR(1), tok_literal("PLUS"), tok_VAR(2), tok_literal("BY"), tok_VAR(3)>>)
    @@ ("x + y \\ z" :> <<tok_VAR(1), tok_literal("PLUS"), tok_VAR(2), tok_literal("INTO"), tok_VAR(3)>>)
    @@ ("x + y + z" :> <<tok_VAR(1), tok_literal("PLUS"), tok_VAR(2), tok_literal("PLUS"), tok_VAR(3)>>)
    @@ ("x ^ y z" :> <<tok_VAR(1), tok_literal("FULL"), tok_VAR(2), tok_VAR(3)>>)
    @@ ("x y ^ z" :> <<tok_VAR(1), tok_VAR(2), tok_literal("FULL"), tok_VAR(3)>>)
    @@ ("x / y z" :> <<tok_VAR(1), tok_literal("BY"), tok_VAR(2), tok_VAR(3)>>)
    @@ ("x y / z" :> <<tok_VAR(1), tok_VAR(2), tok_literal("BY"), tok_VAR(3)>>)
    @@ ("x \\ y z" :> <<tok_VAR(1), tok_literal("INTO"), tok_VAR(2), tok_VAR(3)>>)
    @@ ("x y \\ z" :> <<tok_VAR(1), tok_VAR(2), tok_literal("INTO"), tok_VAR(3)>>)
    @@ ("x + y z" :> <<tok_VAR(1), tok_literal("PLUS"), tok_VAR(2), tok_VAR(3)>>)
    @@ ("x y + z" :> <<tok_VAR(1), tok_VAR(2), tok_literal("PLUS"), tok_VAR(3)>>)

chain_operands(c) == pair_blades(c) \cup pair_terms(c) \cup pair_mvecs(c)

\* a holds the values of x, y and z.
ChainInit ==
  /\ cfg \in term_configs
  /\ iter_order = <<"0","1","2","3">>
  /\ a \in {[x |-> x, y |-> y, z |-> z, raised |-> "none"] :
              x \in chain_operands(cfg), y \in chain_operands(cfg), z \in chain_operands(cfg)}
  /\ b = no_result
  /\ op = "none"
  /\ res = no_result
  /\ CacheIdle
  /\ ConfigIdle
  /\ MvecIdle

\* ar = ARContext(cfg=cfg); ar(text)
DoEvaluateChain(text) == Apply(text, ARContext_call(chain_texts[text], cfg, <<a.x, a.y, a.z>>))

ChainNext == \E text \in DOMAIN chain_texts : DoEvaluateChain(text)

SpecChain == ChainInit /\ [][ChainNext]_vars

(***************************************************************************)
(* An ARContext: the Configuration it holds (conf) and its standard        *)
(* bindings self._vars (res), under assignments through the setters of the *)
(* context and assignments on the Configuration itself                     *)
(***************************************************************************)

\* ARContext._initialise_vars for the configuration c: the groups are taken
\* from c.allowed and checked, then every binding is built under c; an
\* exception leaves self._vars as it was.
ARContext__initialise_vars(c) ==
  LET MultiVector_of(indices) == [of |-> "MultiVector", indices |-> indices]
      AR_differential_of(indices) == [of |-> "AR_differential", indices |-> indices]
      built(v) ==
        IF v.of = "MultiVector"
          THEN MultiVector([n \in 1..Len(v.indices) |-> Alpha(v.indices[n], 1, c)], c)
        ELSE AR_differential(v.indices, c)
      all_built(listed) == [name \in DOMAIN listed |-> built(listed[name])]
      checked(_vars) ==
        IF \E name \in DOMAIN _vars : _vars[name].raised # "none"
          THEN [_vars |-> <<>>, raised |-> "ValueError"]
        ELSE [_vars |-> _vars, raised |-> "none"]
      initialised(_h, _q, _B, _T, _A, _E) ==
        IF Len(_h) # 1 \/ Len(_q) # 1 \/ Len(_B) # 3 \/ Len(_T) # 3 \/ Len(_A) # 3 \/ Len(_E) # 3
          THEN [_vars |-> <<>>, raised |-> "AssertionError"]
        ELSE checked(all_built(
          [ h |-> MultiVector_of(_h), q |-> MultiVector_of(_q), B |-> MultiVector_of(_B),
            E |-> MultiVector_of(_E), F |-> MultiVector_of(_E \o _B), T |-> MultiVector_of(_T),
            G |-> MultiVector_of(c._allowed),
            zet_B |-> MultiVector_of(<< <<"p">> >> \o _B),
            zet_T |-> MultiVector_of(<< <<"0">> >> \o _T),
            zet_A |-> MultiVector_of(_h \o _A), zet_E |-> MultiVector_of(_q \o _E),
            Fp |-> MultiVector_of(<< <<"p">> >> \o _B \o _E),
            zet_F |-> MultiVector_of(<< <<"p">> >> \o _B \o _q \o _E),
            Dmu |-> AR_differential_of(<< <<"0">>, <<"1">>, <<"2">>, <<"3">> >>),
            DG |-> AR_differential_of(c._allowed),
            DF |-> AR_differential_of(_B \o _E),
            DB |-> AR_differential_of(<< <<"p">> >> \o _B),
            DT |-> AR_differential_of(<< <<"0">> >> \o _T),
            DA |-> AR_differential_of(_h \o _A),
            DE |-> AR_differential_of(_q \o _E) ]))
  IN  initialised(SelectSeq(c._allowed, LAMBDA x : Len(x) = 3 /\ ~Contains(x, "0")),
                  SelectSeq(c._allowed, LAMBDA x : Len(x) = 4),
                  SelectSeq(c._allowed, LAMBDA x : Len(x) = 2 /\ ~Contains(x, "0")),
                  SelectSeq(c._allowed, LAMBDA x : Len(x) = 3 /\ Contains(x, "0")),
                  SelectSeq(c._allowed, LAMBDA x : Len(x) = 1 /\ x[1] \notin {"p", "0"}),
                  SelectSeq(c._allowed, LAMBDA x : Len(x) = 2 /\ Contains(x, "0")))

\* The bindings hold the Configuration object itself, not a copy: their cfg
\* is the Configuration as it is now (the labels of their blades are those
\* they were built with).
held(_vars, c) ==
  [name \in DOMAIN _vars |->
     IF "_terms" \in DOMAIN _vars[name]
       THEN [_vars[name] EXCEPT !.cfg = c,
                                !._terms = [n \in DOMAIN @ |-> [@[n] EXCEPT !.cfg = c]]]
     ELSE [_vars[name] EXCEPT !.cfg = c]]

\* The setter of ARContext.allowed on a context with the configuration
\* self and the bindings _vars: the length is checked, the Configuration is
\* assigned to, then the bindings are built again.
ARContext_allowed_setter(self, _vars, value) ==
  LET initialised(c, made) ==
        IF made.raised # "none" THEN [cfg |-> c, _vars |-> held(_vars, c), raised |-> made.raised]
        ELSE [cfg |-> c, _vars |-> made._vars, raised |-> "none"]
      assigned(out) ==
        IF out.raised # "none"
          THEN [cfg |-> out.cfg, _vars |-> held(_vars, out.cfg), raised |-> out.raised]
        ELSE initialised(out.cfg, ARContext__initialise_vars(out.cfg))
  IN  IF Len(value) # 16 THEN [cfg |-> self, _vars |-> _vars, raised |-> "ValueError"]
      ELSE assigned(allowed_setter(self, value))

\* The setter of ARContext.metric: the signs are converted, the
\* Configuration is assigned to; the bindings are not built again.
ARContext_metric_setter(self, _vars, signs) ==
  LET assigned(out) == [cfg |-> out.cfg, _vars |-> held(_vars, out.cfg), raised |-> out.raised]
  IN  IF \A n \in 1..Len(signs) : signs[n] \in {"+", "-"}
        THEN IF Len(signs) # 4 THEN [cfg |-> self, _vars |-> _vars, raised |-> "ValueError"]
             ELSE assigned(metric_setter(self, [n \in 1..4 |-> IF signs[n] = "+" THEN "1" ELSE "-1"]))
      ELSE IF \A n \in 1..Len(signs) : signs[n] \in {"1", "-1"}
        THEN assigned(metric_setter(self, signs))
      ELSE [cfg |-> self, _vars |-> _vars, raised |-> "TypeError"]

\* An assignment on the Configuration the context holds: ar.cfg.allowed = ...
\* or ar.cfg.metric = ...; the context is not told.
on_configuration(_vars, out) ==
  [cfg |-> out.cfg, _vars |-> held(_vars, out.cfg), raised |-> out.raised]

\* ar = ARContext(allowed, metric, "into")
ContextInit ==
  /\ conf \in {ARConfig(al, m, "into") : al \in {allowed, io_allowed},
                                          m \in {metric, <<-1, 1, 1, 1>>}}
  /\ assignment = [attr |-> "none", raised |-> "none", was |-> config]
  /\ cfg = config
  /\ iter_order = <<"0","1","2","3">>
  /\ a = no_result /\ b = no_result
  /\ op = "ARContext"
  /\ res = ARContext__initialise_vars(conf)._vars
  /\ CacheIdle
  /\ MvecIdle

\* One assignment on the context or on its Configuration.
ContextAssign(attr, out) ==
  /\ conf' = out.cfg
  /\ res' = out._vars
  /\ op' = attr
  /\ assignment' = [attr |-> attr, raised |-> out.raised, was |-> conf]
  /\ UNCHANGED <<cfg, iter_order, a, b, cache_vars, mvec_vars>>

\* The values assigned: both labellings, a list of 15 labels, a list
\* without the groups; two metrics and a list that is no metric.
context_allowed_values ==
  { allowed, io_allowed, SubSeq(allowed, 1, 15), [n \in 1..16 |-> <<"p">>] }

context_metric_values ==
  { <<"+", "-", "-", "-">>, <<"-", "+", "+", "+">>, <<"1", "-", "1", "1">> }

\* ar.allowed = value
SetContextAllowed ==
  \E value \in context_allowed_values :
    \E out \in {ARContext_allowed_setter(conf, res, value)} : ContextAssign("ar.allowed", out)

\* ar.metric = signs
SetContextMetric ==
  \E signs \in context_metric_values :
    \E out \in {ARContext_metric_setter(conf, res, signs)} : ContextAssign("ar.metric", out)

\* ar.cfg.allowed = value
SetConfigurationAllowed ==
  \E value \in context_allowed_values :
    \E out \in {on_configuration(res, allowed_setter(conf, value))} : ContextAssign("ar.cfg.allowed", out)

\* ar.cfg.metric = signs
SetConfigurationMetric ==
  \E signs \in context_metric_values :
    \E out \in {on_configuration(res, metric_setter(conf, signs))} : ContextAssign("ar.cfg.metric", out)

ContextNext ==
  \/ SetContextAllowed
  \/ SetContextMetric
  \/ SetConfigurationAllowed
  \/ SetConfigurationMetric

SpecContext == ContextInit /\ [][ContextNext]_vars

(***************************************************************************)
(* Properties of the blade operations                                      *)
(***************************************************************************)

\* Alpha.__eq__ against a literal blade: same index and same sign.
is_blade(x, index, sign) == x.raised = "none" /\ x._index = index /\ x._sign = sign

\* C1: for every metric and every blade a of the configuration, the product
\* of a with inverse(a) is the identity blade p with sign +1.
C1_InverseGivesIdentity ==
  op = "inverse" => is_blade(find_prod(a, res, cfg), <<POINT>>, 1)

\* A blade whose inverse carries the opposite sign has been inverted.
C1_Witness ==
  /\ op = "inverse"
  /\ res.raised = "none"
  /\ res._sign = -1 * a._sign
  /\ Len(a._index) = 3

\* C2: for every pair of blades and every metric, commutator(a, b) has
\* index p (it is the identity blade or its negation).
C2_CommutatorIsIdentity ==
  op = "commutator" => res.raised = "none" /\ res._index = <<POINT>>

\* Two blades that do not commute: the commutator is -p.
C2_Witness ==
  /\ op = "commutator"
  /\ is_blade(res, <<POINT>>, -1)
  /\ a._index # b._index

\* C4: p is a two-sided unit: p * x and x * p have the index of x and the
\* product of the two operand signs as sign (so +p leaves x unchanged).
C4_PointIsUnit ==
  /\ (op = "full" /\ a._index = <<POINT>>) => is_blade(res, b._index, a._sign * b._sign)
  /\ (op = "full" /\ b._index = <<POINT>>) => is_blade(res, a._index, a._sign * b._sign)

\* -p has been multiplied by a negative trivector, and p by p.
C4_Witness ==
  \/ /\ op = "full" /\ a._index = <<POINT>> /\ a._sign = -1
     /\ Len(b._index) = 3 /\ b._sign = -1 /\ res._sign = 1
  \/ /\ op = "full" /\ a._index = <<POINT>> /\ b._index = <<POINT>>
     /\ is_blade(res, <<POINT>>, 1)

\* C5: under the default labels and metric +---, 1 * 2 = +12, 2 * 1 = -12,
\* 1 / 2 = -12 and 2 / 1 = +12.
C5_ProductAndDivisionExamples ==
  (cfg._allowed = allowed /\ cfg._metric = metric /\ a._sign = 1 /\ b._sign = 1) =>
    /\ (a._index = <<"1">> /\ b._index = <<"2">> /\ op = "full")
         => is_blade(res, <<"1","2">>, 1)
    /\ (a._index = <<"2">> /\ b._index = <<"1">> /\ op = "full")
         => is_blade(res, <<"1","2">>, -1)
    /\ (a._index = <<"1">> /\ b._index = <<"2">> /\ op = "div_by")
         => is_blade(res, <<"1","2">>, -1)
    /\ (a._index = <<"2">> /\ b._index = <<"1">> /\ op = "div_by")
         => is_blade(res, <<"1","2">>, 1)

\* Blade 1 has been divided by blade 2 under the default configuration.
C5_Witness ==
  /\ cfg._allowed = allowed /\ cfg._metric = metric
  /\ is_blade(a, <<"1">>, 1) /\ is_blade(b, <<"2">>, 1)
  /\ op = "div_by" /\ res.raised = "none"

\* C6: under metric +--- the squares follow the table: 1 * 1 = -p,
\* 23 * 23 = -p, 123 * 123 = +p and 0 * 0 = +p.
C6_SquareTable ==
  (cfg._metric = metric /\ op = "full" /\ a = b /\ a._sign = 1) =>
    /\ a._index = <<"1">> => is_blade(res, <<POINT>>, -1)
    /\ a._index = <<"2","3">> => is_blade(res, <<POINT>>, -1)
    /\ a._index = <<"1","2","3">> => is_blade(res, <<POINT>>, 1)
    /\ a._index = <<"0">> => is_blade(res, <<POINT>>, 1)

\* Blade 23 has been squared under +---.
C6_Witness ==
  /\ cfg._metric = metric /\ op = "full"
  /\ is_blade(a, <<"2","3">>, 1) /\ a = b /\ res.raised = "none"

\* Alpha.__eq__ on two results: both are blades with the same index and sign.
same_blade(x, y) ==
  x.raised = "none" /\ y.raised = "none" /\ x._index = y._index /\ x._sign = y._sign

\* C3: the full product on blades is associative: (a * b) * c = a * (b * c),
\* index and sign included, for all signed blades of a configuration, both
\* labellings and every metric.
C3_FullIsAssociative ==
  op = "full" =>
    \A c \in Blades(cfg) : same_blade(full(res, c, cfg), full(a, full(b, c, cfg), cfg))

\* A product of two bivectors of the "10 20 30" labelling that needed
\* reordering has been formed (and is multiplied on by every c).
C3_Witness ==
  /\ op = "full"
  /\ cfg._allowed = io_allowed
  /\ is_blade(a, <<"1","0">>, -1)
  /\ is_blade(b, <<"1","2">>, 1)
  /\ res._index = <<"2","0">>

\* The configuration the recorded call was made with.
call_cfg == cache_configs[call.c]

\* The recorded call is a find_prod whose operand i or j carries an
\* allowed-label list other than cfg.allowed.
call_mismatched ==
  /\ call.kind = "find_prod"
  /\ call.vi.allowed # call_cfg._allowed \/ call.vj.allowed # call_cfg._allowed

\* C7: in every state of the product cache, find_prod(i, j, cfg) raises the
\* configuration-mismatch ValueError whenever the allowed list of operand i
\* or of operand j differs from cfg.allowed; it never returns a blade.
C7_MismatchAlwaysRaises ==
  call_mismatched => call.raised = "ValueError"

\* C8: a find_prod call through the cache, on operands built under cfg,
\* returns (or raises) what the uncached computation gives for the same
\* operands and configuration, with the same index and sign, whatever calls
\* and caller mutations came before.
C8_CachedEqualsUncached ==
  (/\ call.kind = "find_prod"
   /\ call.vi.allowed = call_cfg._allowed
   /\ call.vj.allowed = call_cfg._allowed) =>
    LET uncached == find_prod(call.vi, call.vj, call_cfg)
    IN  /\ call.raised = uncached.raised
        /\ uncached.raised = "none" =>
             is_blade(call.ret, uncached._index, uncached._sign)

\* A call was answered from the cache with a negative blade while the caller
\* holds an earlier copy of that blade whose sign a Term has reset to +1.
C8_Witness ==
  /\ call.kind = "find_prod" /\ call.raised = "none"
  /\ call.vi.allowed = call_cfg._allowed /\ call.vj.allowed = call_cfg._allowed
  /\ cache = call.cache_was /\ cache # <<>>
  /\ call.ret._sign = -1
  /\ \E n \in 1..NSlots :
       /\ slots[n] # no_object
       /\ slots[n].val = [call.ret EXCEPT !._sign = 1]

\* The recorded call failed: find_prod raised, or the evaluation of an
\* expression raised or gave no value.
call_failed ==
  \/ call.kind = "find_prod" /\ call.raised # "none"
  \/ call.kind = "eval" /\ (call.raised # "none" \/ call.ret = Raise("None"))

\* C9: a failed operation (find_prod raising, an ARContext evaluation
\* raising or returning no value) leaves the entries of the product cache
\* exactly as they were before the call.
C9_FailureKeepsCache ==
  call_failed => cache = call.cache_was

\* C10: assignment to allowed or metric is all-or-nothing: when the
\* assignment raises, the allowed list, the metric and the derived
\* groupings of the configuration are what they were before it.
C10_AssignmentAllOrNothing ==
  (assignment.attr \in {"allowed", "metric"} /\ assignment.raised # "none") =>
    conf = assignment.was

\* C11: after construction and any sequence of accepted or rejected
\* assignments to allowed and metric (and reset), the allowed list of the
\* configuration holds exactly 16 pairwise distinct labels (an assignment
\* with a duplicate label is rejected and changes nothing).
C11_AllowedSixteenDistinct ==
  /\ Len(conf._allowed) = 16
  /\ Cardinality(Range(conf._allowed)) = 16

\* list.__eq__ on two lists of Terms.
terms_eq(u, v) == Len(u) = Len(v) /\ \A n \in 1..Len(u) : Term_eq(u[n], v[n])

\* How many of the terms equal t.
count(terms, t) == Cardinality({n \in 1..Len(terms) : Term_eq(terms[n], t)})

\* C12: cancel_terms is idempotent: after a second call in a row the terms
\* of the MultiVector are what they were after the first.
C12_CancelTermsIdempotent ==
  (mv_call.name = "cancel_terms" /\ mv_call.calls = 2)
    => terms_eq(mv._terms, mv_call.was._terms)

\* C12 witness: a second call on a MultiVector that kept a repeated term.
C12_Witness ==
  /\ mv_call.name = "cancel_terms" /\ mv_call.calls = 2
  /\ \E n \in 1..Len(mv._terms) : count(mv._terms, mv._terms[n]) >= 2

MultiVector_eq(x, y) == terms_eq(sorted_terms(x._terms), sorted_terms(y._terms))

\* == on two values of the model.
value_eq(x, y) ==
  /\ kind(x) = kind(y)
  /\ CASE kind(x) = "Alpha" -> Alpha_eq(x, y)
       [] kind(x) = "Term" -> Term_eq(x, y)
       [] kind(x) = "MultiVector" -> MultiVector_eq(x, y)
       [] OTHER -> x = y

\* Do the terms `got` hold f(t) for every term t of `given`, as often as
\* `given` holds t, and nothing else?
terms_mapped(given, got, f(_)) ==
  /\ Len(got) = Len(given)
  /\ \A n \in 1..Len(given) :
       Cardinality({k \in 1..Len(got) : Term_eq(got[k], f(given[n]))})
         = Cardinality({k \in 1..Len(given) : Term_eq(f(given[k]), f(given[n]))})

\* C14: rev is an involution on blades, terms and MultiVectors, and it
\* negates exactly the elements whose index has length 2 or 3.
C14_RevInvolution ==
  LET negated(index) == Len(index) \in {2, 3}
      reversed_term(t) == IF negated(t._alpha._index) THEN Term_neg(t) ELSE t
  IN  /\ op = "rev rev" => value_eq(res, a)
      /\ op = "rev" =>
           CASE kind(a) = "Alpha" ->
                  value_eq(res, IF negated(a._index) THEN neg(a) ELSE a)
             [] kind(a) = "Term" -> value_eq(res, reversed_term(a))
             [] kind(a) = "MultiVector" ->
                  /\ kind(res) = "MultiVector"
                  /\ terms_mapped(a._terms, res._terms, reversed_term)

\* C14 witness: rev applied twice to a MultiVector with a term that is
\* negated and one that is not.
C14_Witness ==
  /\ op = "rev rev"
  /\ kind(a) = "MultiVector"
  /\ \E n, k \in 1..Len(a._terms) :
       Len(a._terms[n]._alpha._index) = 2 /\ Len(a._terms[k]._alpha._index) = 4
\* C15: the Hermitian conjugate flips the sign of a blade, of a term and of
\* every term of a MultiVector exactly when the blade squares to minus the
\* identity under the metric, whatever the sign it starts with.
C15_HermitianFlipsSign ==
  LET conjugate_term(t) == IF squares_to_minus(t._alpha, cfg) THEN Term_neg(t) ELSE t
  IN  op = "hermitian" =>
        CASE kind(a) = "Alpha" ->
               value_eq(res, IF squares_to_minus(a, cfg) THEN neg(a) ELSE a)
          [] kind(a) = "Term" -> value_eq(res, conjugate_term(a))
          [] kind(a) = "MultiVector" ->
               /\ kind(res) = "MultiVector"
               /\ terms_mapped(a._terms, res._terms, conjugate_term)
\* C16: project keeps a blade or a term exactly when its index is not p and
\* has the length of the grade, or is p and the grade is 0: a blade or a
\* term comes back itself or None, a MultiVector comes back as a MultiVector
\* of exactly the matching terms, without terms if none matches.
C16_ProjectKeepsGrade ==
  LET kept(index) == \/ index # <<"p">> /\ Len(index) = b.grade
                     \/ index = <<"p">> /\ b.grade = 0
      matching == SelectSeq(a._terms, LAMBDA t : kept(t._alpha._index))
  IN  op = "project" =>
        CASE kind(a) = "Alpha" -> res = IF kept(a._index) THEN a ELSE None
          [] kind(a) = "Term" -> res = IF kept(a._alpha._index) THEN a ELSE None
          [] kind(a) = "MultiVector" ->
               /\ kind(res) = "MultiVector"
               /\ terms_mapped(matching, res._terms, LAMBDA t : t)

\* C16 witness: a MultiVector with terms is projected on a grade none of
\* them has.
C16_Witness ==
  /\ op = "project"
  /\ kind(a) = "MultiVector" /\ a._terms # <<>>
  /\ kind(res) = "MultiVector" /\ res._terms = <<>>
\* C19: a differential operator of k blades applied to a MultiVector of n
\* terms gives n * k terms, one for every term t and blade w, whose blade
\* is div_into(w, t.alpha) or div_by(t.alpha, w): D m divides by the
\* division type of the configuration, m D always divides "by".
C19_DifferentialTerms ==
  LET D == IF kind(a) = "AR_differential" THEN a ELSE b
      m == IF kind(a) = "AR_differential" THEN b ELSE a
      division == IF kind(a) = "AR_differential" THEN cfg.division_type ELSE "by"
      blade(t, w) == IF division = "into" THEN div_into(w, Term_alpha(t), cfg)
                     ELSE div_by(Term_alpha(t), w, cfg)
  IN  (/\ op = "full"
       /\ {kind(a), kind(b)} = {"AR_differential", "MultiVector"})
        => /\ kind(res) = "MultiVector"
           /\ Len(res._terms) = Len(m._terms) * Len(D.wrt)
           /\ \A x \in Blades(cfg) :
                Cardinality({n \in 1..Len(res._terms) : Alpha_eq(Term_alpha(res._terms[n]), x)})
                  = Cardinality({tw \in (1..Len(m._terms)) \X (1..Len(D.wrt)) :
                                   Alpha_eq(blade(m._terms[tw[1]], D.wrt[tw[2]]), x)})

\* C19 witness: m D on a MultiVector of three terms and an operator of
\* four blades, under a configuration that divides "into".
C19_Witness ==
  /\ op = "full"
  /\ kind(a) = "MultiVector" /\ kind(b) = "AR_differential"
  /\ cfg.division_type = "into"
  /\ Len(a._terms) = 3 /\ Len(b.wrt) = 4
  /\ kind(res) = "MultiVector" /\ Len(res._terms) = 12
\* C20: differentiating a term by w leaves its list of partials (that of
\* its magnitude if it has one magnitude, that of the term if it has
\* several) equal to the list it had with w put in front.
C20_PartialPrepended ==
  (op = "term_partial" /\ kind(res) = "Term")
    => partials_of(res) = <<b>> \o partials_of(a)

\* What division is registered for: the kinds of its two arguments.
div_registered(name) ==
  IF name \in {"div_by", "x / y", "a1 / p2"}
    THEN { <<"Alpha", "Alpha">>, <<"Term", "Alpha">> }
  ELSE { <<"Alpha", "Alpha">>, <<"Alpha", "Term">> }

\* C17: div_by is defined for (blade, blade) and (term, blade), div_into for
\* (blade, blade) and (blade, term); for every other pair of kinds the call
\* raises NotImplementedError, and for the registered pairs it does not.  A
\* division of an unregistered pair written in an expression, as in
\* "a1 / p2", leaves the evaluator as that same exception.
C17_DivisionOnlyRegistered ==
  /\ op \in {"div_by", "div_into"}
       => (res.raised = "NotImplementedError"
             <=> <<kind(a), kind(b)>> \notin div_registered(op))
  /\ op \in {"div_by", "div_into"} /\ <<kind(a), kind(b)>> \in div_registered(op)
       => res.raised = "none"
          /\ kind(res) = (IF "Term" \in {kind(a), kind(b)} THEN "Term" ELSE "Alpha")
  /\ op \in {"x / y", "x \\ y"} /\ <<kind(a), kind(b)>> \notin div_registered(op)
       => res.raised = "NotImplementedError"
  /\ op \in {"x / y", "x \\ y"} /\ <<kind(a), kind(b)>> \in div_registered(op)
       => res.raised = "none" /\ kind(res) \in {"Alpha", "Term"}
  /\ op = "a1 / p2" => res.raised = "NotImplementedError"

C17_Witness ==
  /\ op = "a1 / p2"
  /\ res.raised = "NotImplementedError"


\* The malformed token sequences, as they show in the lexemes of a text.
opening == {"PAREN_OPEN", "ANGLE_OPEN", "SQUARE_OPEN"}
closing == {"PAREN_CLOSE", "ANGLE_CLOSE", "SQUARE_CLOSE"}
closes(tag) ==
  CASE tag = "PAREN_OPEN" -> "PAREN_CLOSE"
    [] tag = "ANGLE_OPEN" -> "ANGLE_CLOSE"
    [] tag = "SQUARE_OPEN" -> "SQUARE_CLOSE"

malformed(text) ==
  LET ls == matches(text)
      n_ls == Len(ls)
      binary(n) == ls[n].tag \in {"FULL", "BY", "INTO"}
  IN  \* a binary operator with no left operand, or with no right operand
      \/ \E n \in 1..n_ls :
           /\ binary(n)
           /\ \/ n = 1
              \/ n > 1 /\ (binary(n - 1) \/ ls[n - 1].tag \in opening \cup {"COMMA"})
      \/ \E n \in 1..n_ls :
           /\ binary(n)
           /\ \/ n = n_ls
              \/ n < n_ls /\ (binary(n + 1) \/ ls[n + 1].tag \in closing \cup {"COMMA"})
      \* a name that is no variable
      \/ \E n \in 1..n_ls : ls[n].tag = "VAR"
      \* an opening bracket that is not closed
      \/ \E n \in 1..n_ls :
           /\ ls[n].tag \in opening
           /\ \A k \in (n + 1)..n_ls : ls[k].tag # closes(ls[n].tag)
      \* an empty sub-expression in parentheses, angle or square brackets
      \/ \E n \in 1..(Len(text) - 1) :
           \/ text[n].tag \in opening /\ text[n + 1].tag = closes(text[n].tag)
           \/ text[n].tag = "SQUARE_OPEN" /\ text[n + 1].tag = "COMMA"
           \/ text[n].tag = "COMMA" /\ text[n + 1].tag = "SQUARE_CLOSE"
      \* a projection with no index
      \/ \E n \in 1..n_ls :
           /\ ls[n].tag = "ANGLE_CLOSE"
           /\ \E k \in 1..(n - 1) : ls[k].tag = "ANGLE_OPEN"
           /\ \/ n = n_ls
              \/ n < n_ls /\ ls[n + 1].tag # "INDEX"
      \* a closing bracket that closes nothing
      \/ \E n \in 1..n_ls :
           /\ ls[n].tag \in closing
           /\ \A k \in 1..(n - 1) : ls[k].tag \in opening => closes(ls[k].tag) # ls[n].tag

\* C18: every malformed text evaluates through the ARContext to None and
\* raises nothing: a binary operator with no left or no right operand, an
\* unresolved name, an unclosed opening bracket, an empty sub-expression in
\* parentheses, angle or square brackets, a projection with no index, a
\* stray closing bracket, at the top level or nested.
C18_MalformedGivesNone ==
  (op = "ar" /\ malformed(a.text)) => res = None

\* C25: division undoes the product on blades: for all signed blades a, b
\* of a configuration and every metric, div_by(full(a, b), b) == a and
\* div_into(a, full(a, b)) == b.
C25_DivisionUndoesProduct ==
  op = "full" =>
    /\ res.raised = "none"
    /\ same_blade(div_by(res, b, cfg), a)
    /\ same_blade(div_into(a, res, cfg), b)

\* A product of a negative bivector and a trivector, whose inverses differ
\* from the blades themselves under the metric, has been divided again.
C25_Witness ==
  /\ op = "full"
  /\ res.raised = "none"
  /\ a._sign = -1 /\ Len(a._index) = 2 /\ Len(b._index) = 3
  /\ inverse(a, cfg) # a
  /\ inverse(b, cfg) # b
  /\ same_blade(div_by(res, b, cfg), a)

\* Every order in which a set of the four generator symbols can be iterated.
set_orders ==
  {s \in [1..4 -> {"0", "1", "2", "3"}] : \A n, k \in 1..4 : s[n] = s[k] => n = k}

\* C24: the product does not depend on the order of cancellation: when two
\* blades share two or more generator symbols, find_prod returns the same
\* index and sign whichever order the shared symbols are taken in from the
\* intersection set.
C24_CancellationOrderIrrelevant ==
  (op = "full" /\ Cardinality(Range(a._index) \cap Range(b._index)) >= 2) =>
    \A order \in set_orders : same_blade(find_prod_body(a, b, cfg, order), res)

\* Two blades share two symbols of which one has an odd and the other an
\* even number of symbols between its two occurrences: the sign after the
\* first cancellation depends on which symbol is taken first.
C24_Witness ==
  /\ op = "full"
  /\ res.raised = "none"
  /\ \E x, y \in Range(a._index) \cap Range(b._index) :
       /\ x # y
       /\ metric_of(cfg, x) = metric_of(cfg, y)
       /\ pop_and_cancel([sign |-> 1, components |-> a._index \o b._index], x, cfg).sign
            # pop_and_cancel([sign |-> 1, components |-> a._index \o b._index], y, cfg).sign

\* How many pairs of symbols stand in components in the order opposite to
\* the one they have in target.
inversions(components, target) ==
  Cardinality({p \in (1..Len(components)) \X (1..Len(components)) :
                 /\ p[1] < p[2]
                 /\ index_of(target, components[p[1]]) > index_of(target, components[p[2]])})

\* C23: when the surviving symbols of a product stand in an order other
\* than that of the matching label, the sign correction of the "first rank
\* is even" loop is -1 exactly when the permutation taking the surviving
\* order to the label is odd, for every arrangement of 2, 3 or 4 symbols
\* and every order of the label.
C23_SignIsParity ==
  op = "to_target" =>
    /\ res.raised = "none"
    /\ res._index = a.target
    /\ res._sign = -1 <=> inversions(a.components, a.target) % 2 = 1

\* Four surviving symbols three inversions away from a label that is not
\* in ascending order: the correction is -1.
C23_Witness ==
  /\ op = "to_target"
  /\ Len(a.components) = 4
  /\ a.target # <<"0","1","2","3">>
  /\ inversions(a.components, a.target) = 3
  /\ res._sign = -1

\* C29: dual(m) depends only on m and the configuration m was built under:
\* it equals full(-q, m) computed with the quadrivector blade q and the
\* metric of that configuration, also when its metric or its labels differ
\* from those of the module-level default (the configuration has had its
\* predefined MultiVectors built, q among them).
C29_DualUnderOwnConfig ==
  (op = "dual" /\ kind(a) = "MultiVector" /\ b.update_env) =>
    value_eq(res, full_any(Alpha(cfg._q, -1, cfg), a, cfg))

\* C27: ordering two blades built under configurations with different
\* lists of allowed labels (a mere reordering of the same labels included)
\* is an error at the comparison; it is never answered from the label
\* order of one of the operands.
C27_MixedOrderingRaises ==
  (op = "__lt__" /\ cfg._allowed # conf._allowed) => res.raised # "none"

\* C26: MultiVector equality does not depend on the order in which the
\* terms were supplied: a + b and b + a, built from the same signed terms
\* in two orders, compare equal, also when a term stands among them
\* together with its negative.
C26_EqualityIgnoresOrder ==
  op = "a + b == b + a" => res.val

\* C22: a blade is never mutated in place: a step in which an operation is
\* given the blade a slot holds and constructs a Term from it leaves every
\* blade the caller holds with the index and the sign it had before the step.
C22_BladeNeverMutated ==
  [][call'.kind = "term" =>
       \A n \in 1..NSlots : slots[n] # no_object => slots'[n].val = slots[n].val]_vars

\* The terms of a value: the Term itself, or the terms of a MultiVector.
terms_in(v) ==
  IF kind(v) = "Term" THEN {v}
  ELSE IF kind(v) = "MultiVector" THEN Range(v._terms)
  ELSE {}

applied(tag, x, y, c) ==
  CASE tag = "FULL" -> full_any(x, y, c)
    [] tag = "BY" -> div_by_any(x, y, c)
    [] tag = "INTO" -> div_into_any(x, y, c)
    [] tag = "PLUS" -> operator_add(x, y)

\* What a text of chain_texts stands for when every operator takes all that
\* came before it as its left operand and all that comes after it as its
\* right operand, a missing operator being the full product.
grouped_to_the_right(tokens, x, y, z, c) ==
  IF Len(tokens) = 5
    THEN applied(tokens[2].tag, x, applied(tokens[4].tag, y, z, c), c)
  ELSE IF tokens[2].tag = "VAR"
    THEN applied(tokens[3].tag, full_any(x, y, c), z, c)
  ELSE applied(tokens[2].tag, x, full_any(y, z, c), c)

\* C30: a binary operator of the evaluator (^, /, \, +) takes everything
\* accumulated so far as its left operand and the value of the whole rest
\* of the text as its right operand: "x / y / z" is div_by(x, div_by(y, z))
\* and "x / y z" is div_by(x, full(y, z)), the exception of the operation
\* included.
C30_OperatorsGroupRight ==
  op \in DOMAIN chain_texts =>
    res = grouped_to_the_right(chain_texts[op], a.x, a.y, a.z, cfg)

\* "x / y / z" gave a blade that differs from div_by(div_by(x, y), z).
C30_Witness ==
  /\ op = "x / y / z"
  /\ kind(res) = "Alpha"
  /\ res # div_by_any(div_by_any(a.x, a.y, cfg), a.z, cfg)

\* C21: after any sequence of assignments to allowed and metric, through
\* the setters of the context or on the Configuration it holds, every
\* standard binding of the context is the value built from the current
\* allowed labels of the Configuration (where those labels have the groups
\* the bindings are built from).
C21_BindingsTrackConfiguration ==
  LET derived == ARContext__initialise_vars(conf)
  IN  (op # "ARContext" /\ derived.raised = "none") => res = derived._vars

\* After an assignment through the allowed setter of the context that
\* did not raise, the bindings are those built from the current labels.
context_setter_rebuilds ==
  (op = "ar.allowed" /\ assignment.raised = "none") =>
    res = ARContext__initialise_vars(conf)._vars

====
